---- MODULE Spec2Model ----
(***************************************************************************)
(* Model of the order-sheet batch pipeline of api/handle_excel.py:         *)
(* process_excel_file, BookingFormData, create_booking_data_from_row,      *)
(* validate_booking_data, process_booking and the row loop of main.        *)
(*                                                                         *)
(* Python strings are sequences of one-character strings, so that          *)
(* substring tests, splitting and parsing are computed and not assumed.    *)
(* A Python value is a record [kind, s, n]:                                *)
(*   kind "nan"      float nan / the pandas missing-value marker           *)
(*   kind "none"     None                                                  *)
(*   kind "str"      a string, s holds its characters                      *)
(*   kind "int"      an integer n                                          *)
(*   kind "float"    a finite float, n holds its value in tenths           *)
(*   kind "inf"      float infinity (n is its sign)                        *)
(*   kind "datetime" a datetime, s holds the characters of its isoformat() *)
(***************************************************************************)
EXTENDS Integers, Sequences, FiniteSets, TLC

----------------------------------------------------------------------------
(* Bounds of the model *)

\* rows of a loaded sheet
MaxRows == 2
\* cells of an order that differ from the correctly filled-in order
MaxDev == 2
\* most lines of a worksheet below its first one (longer ones: DeepSheets)
MaxSheetRows == 3

----------------------------------------------------------------------------
(* Python values *)

NaN == [kind |-> "nan", s |-> <<>>, n |-> 0]
None == [kind |-> "none", s |-> <<>>, n |-> 0]
Str(x) == [kind |-> "str", s |-> x, n |-> 0]
IntV(k) == [kind |-> "int", s |-> <<>>, n |-> k]
FloatV(t) == [kind |-> "float", s |-> <<>>, n |-> t]
InfV(sign) == [kind |-> "inf", s |-> <<>>, n |-> sign]
DateTimeV(iso) == [kind |-> "datetime", s |-> iso, n |-> 0]

EmptyStr == Str(<<>>)

\* bool(value): the truth value Python gives `value` in `if value` / `not value`
Truthy(v) ==
    CASE v.kind = "none" -> FALSE
      [] v.kind = "str" -> v.s # <<>>
      [] v.kind = "int" -> v.n # 0
      [] v.kind = "float" -> v.n # 0
      [] OTHER -> TRUE

\* pd.isna(value) for a scalar
IsNa(v) == v.kind \in {"nan", "none"}

----------------------------------------------------------------------------
(* Strings *)

\* the lower-case letter of each upper-case letter
LowerOf ==
    [ A |-> "a", B |-> "b", C |-> "c", D |-> "d", E |-> "e", F |-> "f", G |-> "g",
      H |-> "h", I |-> "i", J |-> "j", K |-> "k", L |-> "l", M |-> "m", N |-> "n",
      O |-> "o", P |-> "p", Q |-> "q", R |-> "r", S |-> "s", T |-> "t", U |-> "u",
      V |-> "v", W |-> "w", X |-> "x", Y |-> "y", Z |-> "z" ]
UpperChars == DOMAIN LowerOf

\* str.lower() of one character
LowerChar(c) == IF c \in UpperChars THEN LowerOf[c] ELSE c

\* str.lower()
LowerStr(x) == [i \in 1..Len(x) |-> LowerChar(x[i])]

\* needle in hay
Contains(hay, needle) ==
    \E i \in 0..(Len(hay) - Len(needle)) :
        SubSeq(hay, i + 1, i + Len(needle)) = needle

IsSpace(c) == c = " "

\* str.strip()
RECURSIVE LStrip(_)
LStrip(x) == IF x # <<>> /\ IsSpace(Head(x)) THEN LStrip(Tail(x)) ELSE x
RECURSIVE RStrip(_)
RStrip(x) ==
    IF x # <<>> /\ IsSpace(x[Len(x)]) THEN RStrip(SubSeq(x, 1, Len(x) - 1)) ELSE x
Strip(x) == RStrip(LStrip(x))

\* str.split(sep) for a one-character separator: always at least one part
RECURSIVE SplitAcc(_, _, _)
SplitAcc(x, sep, cur) ==
    IF x = <<>> THEN <<cur>>
    ELSE IF Head(x) = sep THEN <<cur>> \o SplitAcc(Tail(x), sep, <<>>)
    ELSE SplitAcc(Tail(x), sep, Append(cur, Head(x)))
Split(x, sep) == SplitAcc(x, sep, <<>>)

Digits == <<"0","1","2","3","4","5","6","7","8","9">>
DigitOf ==
    "0" :> 0 @@ "1" :> 1 @@ "2" :> 2 @@ "3" :> 3 @@ "4" :> 4 @@ "5" :> 5 @@ "6" :> 6
        @@ "7" :> 7 @@ "8" :> 8 @@ "9" :> 9
DigitChars == DOMAIN DigitOf
IsDigit(c) == c \in DigitChars
DigitVal(c) == DigitOf[c]
AllDigits(x) == \A i \in 1..Len(x) : IsDigit(x[i])

RECURSIVE DigitsVal(_)
DigitsVal(x) ==
    IF x = <<>> THEN 0 ELSE 10 * DigitsVal(SubSeq(x, 1, Len(x) - 1)) + DigitVal(x[Len(x)])

Min(a, b) == IF a < b THEN a ELSE b

----------------------------------------------------------------------------
(* Exceptions: a raised exception is a value of kind "raise"; s names it *)

Raised(what) == [kind |-> "raise", s |-> <<what>>, n |-> 0]
IsRaised(v) == v.kind = "raise"

----------------------------------------------------------------------------
(* BookingFormData._extract_country *)

Unknown == Str(<<"U","n","k","n","o","w","n">>)

country_candidates ==
    << <<"U","S","A">>,
       <<"U","S">>,
       <<"U","n","i","t","e","d"," ","S","t","a","t","e","s">>,
       <<"C","a","n","a","d","a">>,
       <<"M","e","x","i","c","o">>,
       <<"U","K">>,
       <<"F","r","a","n","c","e">>,
       <<"G","e","r","m","a","n","y">>,
       <<"C","h","i","n","a">>,
       <<"J","a","p","a","n">>,
       <<"A","u","s","t","r","a","l","i","a">> >>

\* for country in country_candidates[k..]: if country.lower() in part.lower():
\* the index of the first such candidate, 0 when there is none
RECURSIVE CountryMatchFrom(_, _)
CountryMatchFrom(lowpart, k) ==
    IF k > Len(country_candidates) THEN 0
    ELSE IF Contains(lowpart, LowerStr(country_candidates[k])) THEN k
    ELSE CountryMatchFrom(lowpart, k + 1)
CountryMatch(part) == CountryMatchFrom(LowerStr(part), 1)

\* [p.strip() for p in address.split(",")]
AddressParts(x) == LET raw == Split(x, ",") IN [i \in 1..Len(raw) |-> Strip(raw[i])]

\* ScanParts that walks the parts from the first one on: parts[i]
RECURSIVE ScanParts_FromFirst(_, _)
ScanParts_FromFirst(parts, i) ==
    IF i >= Min(3, Len(parts)) THEN Str(parts[Len(parts)])
    ELSE LET k == CountryMatch(parts[1 + i])
         IN  IF k # 0 THEN Str(country_candidates[k])
             ELSE ScanParts_FromFirst(parts, i + 1)

\* for i in range(min(3, len(parts))), from offset i on: the first candidate
\* found in parts[len(parts)-1-i], else parts[-1]
RECURSIVE ScanParts(_, _)
ScanParts(parts, i) ==
    IF i >= Min(3, Len(parts)) THEN Str(parts[Len(parts)])
    ELSE LET k == CountryMatch(parts[Len(parts) - i])
         IN  IF k # 0 THEN Str(country_candidates[k]) ELSE ScanParts(parts, i + 1)

_extract_country(address) ==
    IF ~Truthy(address) THEN Unknown
    ELSE IF address.kind # "str" THEN Raised("AttributeError")
    ELSE ScanParts(AddressParts(address.s), 0)

----------------------------------------------------------------------------
(* BookingFormData._format_date *)

\* the regular expressions datetime.strptime uses for %Y, %m and %d
MatchY(p) == Len(p) = 4 /\ AllDigits(p)
MatchM(p) ==
    \/ Len(p) = 2 /\ p[1] = "1" /\ p[2] \in {"0", "1", "2"}
    \/ Len(p) = 2 /\ p[1] = "0" /\ IsDigit(p[2]) /\ p[2] # "0"
    \/ Len(p) = 1 /\ IsDigit(p[1]) /\ p[1] # "0"
MatchD(p) ==
    \/ Len(p) = 2 /\ p[1] = "3" /\ p[2] \in {"0", "1"}
    \/ Len(p) = 2 /\ p[1] \in {"1", "2"} /\ IsDigit(p[2])
    \/ Len(p) = 2 /\ p[1] \in {"0", " "} /\ IsDigit(p[2]) /\ p[2] # "0"
    \/ Len(p) = 1 /\ IsDigit(p[1]) /\ p[1] # "0"

\* value of a matched %m / %d group (a leading blank counts for nothing)
GroupVal(p) == IF p[1] = " " THEN DigitsVal(Tail(p)) ELSE DigitsVal(p)

IsLeap(y) == (y % 4 = 0 /\ y % 100 # 0) \/ y % 400 = 0
DaysInMonth(y, m) ==
    IF m = 2 THEN (IF IsLeap(y) THEN 29 ELSE 28)
    ELSE IF m \in {4, 6, 9, 11} THEN 30 ELSE 31

\* datetime(y, m, d) accepts the date
ValidDate(y, m, d) == y >= 1 /\ m \in 1..12 /\ d \in 1..DaysInMonth(y, m)

\* the formats with month-first tried before day-first
date_formats_MonthFirst ==
    << [sep |-> "-", y |-> 1, m |-> 2, d |-> 3],
       [sep |-> "/", y |-> 3, m |-> 1, d |-> 2],
       [sep |-> "/", y |-> 3, m |-> 2, d |-> 1] >>

\* the formats tried, in order: "%Y-%m-%d", "%d/%m/%Y", "%m/%d/%Y"
date_formats ==
    << [sep |-> "-", y |-> 1, m |-> 2, d |-> 3],
       [sep |-> "/", y |-> 3, m |-> 2, d |-> 1],
       [sep |-> "/", y |-> 3, m |-> 1, d |-> 2] >>

\* datetime.strptime(x, fmt): <<year, month, day>>, or <<>> for ValueError
Strptime(x, fmt) ==
    LET p == Split(x, fmt.sep)
    IN  IF Len(p) = 3 /\ MatchY(p[fmt.y]) /\ MatchM(p[fmt.m]) /\ MatchD(p[fmt.d])
           /\ ValidDate(DigitsVal(p[fmt.y]), GroupVal(p[fmt.m]), GroupVal(p[fmt.d]))
        THEN <<DigitsVal(p[fmt.y]), GroupVal(p[fmt.m]), GroupVal(p[fmt.d])>>
        ELSE <<>>

TwoDigits(k) == <<Digits[(k \div 10) + 1], Digits[(k % 10) + 1]>>
FourDigits(k) == TwoDigits(k \div 100) \o TwoDigits(k % 100)

\* datetime(y, m, d).isoformat()
IsoFormat(ymd) ==
    FourDigits(ymd[1]) \o <<"-">> \o TwoDigits(ymd[2]) \o <<"-">> \o TwoDigits(ymd[3])
        \o <<"T","0","0",":","0","0",":","0","0">>

\* no pattern parses the string
RawDateStr(x) == \A k \in 1..Len(date_formats) : Strptime(x, date_formats[k]) = <<>>

\* _format_date that gives up on a string no pattern parses and returns ""
_format_date_Blank(date_str) ==
    IF date_str.kind = "datetime" THEN Str(date_str.s)
    ELSE IF date_str.kind = "str" /\ RawDateStr(date_str.s) THEN EmptyStr
    ELSE IF date_str.kind = "str"
    THEN Str(IsoFormat(Strptime(date_str.s,
             date_formats[CHOOSE k \in 1..Len(date_formats) :
                             /\ Strptime(date_str.s, date_formats[k]) # <<>>
                             /\ \A j \in 1..(k - 1) : Strptime(date_str.s, date_formats[j]) = <<>>])))
    ELSE date_str

_format_date(date_str) ==
    IF date_str.kind = "str"
    THEN LET ok == {k \in 1..Len(date_formats) : Strptime(date_str.s, date_formats[k]) # <<>>}
         IN  IF ok # {}
             THEN LET k == CHOOSE k \in ok : \A j \in ok : k <= j
                  IN  Str(IsoFormat(Strptime(date_str.s, date_formats[k])))
             ELSE date_str
    ELSE IF date_str.kind = "datetime" THEN Str(date_str.s)
    ELSE date_str

----------------------------------------------------------------------------
(* create_booking_data_from_row: get_value, safe_numeric, int() *)

\* A row (pandas Series) is a sequence of cells [label, value] in column order.
LabelCount(row, field) == Cardinality({i \in 1..Len(row) : row[i].label = field})
Cell(row, field) == row[CHOOSE i \in 1..Len(row) : row[i].label = field].value

\* get_value(fields, default): the first alias that is a label of the row and
\* whose cell is not NA; a label carried by two columns makes row[field] a
\* Series, whose truth value raises ValueError
RECURSIVE get_value_from(_, _, _, _)
get_value_from(row, fields, k, default) ==
    IF k > Len(fields) THEN default
    ELSE IF fields[k] \notin {row[i].label : i \in 1..Len(row)}
         THEN get_value_from(row, fields, k + 1, default)
    ELSE IF LabelCount(row, fields[k]) > 1 THEN Raised("ValueError")
    ELSE IF IsNa(Cell(row, fields[k])) THEN get_value_from(row, fields, k + 1, default)
    ELSE Cell(row, fields[k])
get_value(row, fields, default) == get_value_from(row, fields, 1, default)

\* float(str): [ws] [sign] (digits [. digits] | . digits | inf | infinity | nan) [ws]
\* The model keeps one decimal of a literal; exponents are not in its alphabet.
FloatOfUnsigned(x, sign) ==
    LET low == LowerStr(x)
        p == Split(x, ".")
    IN  IF low \in {<<"i","n","f">>, <<"i","n","f","i","n","i","t","y">>} THEN InfV(sign)
        ELSE IF low = <<"n","a","n">> THEN NaN
        ELSE IF Len(p) = 1 /\ p[1] # <<>> /\ AllDigits(p[1])
             THEN FloatV(sign * 10 * DigitsVal(p[1]))
        ELSE IF Len(p) = 2 /\ AllDigits(p[1]) /\ AllDigits(p[2]) /\ (p[1] \o p[2]) # <<>>
             THEN FloatV(sign * (10 * DigitsVal(p[1])
                                 + (IF p[2] = <<>> THEN 0 ELSE DigitVal(p[2][1]))))
        ELSE Raised("ValueError")

FloatOfStr(x) ==
    LET t == Strip(x)
    IN  IF t = <<>> THEN Raised("ValueError")
        ELSE IF t[1] = "-" THEN FloatOfUnsigned(Tail(t), -1)
        ELSE IF t[1] = "+" THEN FloatOfUnsigned(Tail(t), 1)
        ELSE FloatOfUnsigned(t, 1)

\* float(value)
ToFloat(v) ==
    CASE v.kind = "int" -> FloatV(10 * v.n)
      [] v.kind \in {"float", "inf", "nan"} -> v
      [] v.kind = "str" -> FloatOfStr(v.s)
      [] OTHER -> Raised("TypeError")

\* safe_numeric(value, default): default for NA and for any conversion error
safe_numeric(value, default) ==
    IF IsNa(value) THEN default
    ELSE IF IsRaised(ToFloat(value)) THEN default
    ELSE ToFloat(value)

\* int(x) of a number: truncation toward zero; inf and nan raise
ToInt(v) ==
    CASE v.kind = "int" -> v
      [] v.kind = "float" ->
            IntV(IF v.n >= 0 THEN v.n \div 10 ELSE -((-v.n) \div 10))
      [] v.kind = "inf" -> Raised("OverflowError")
      [] v.kind = "nan" -> Raised("ValueError")
      [] OTHER -> Raised("TypeError")

----------------------------------------------------------------------------
(* BookingFormData.__init__ and to_dict *)

\* one `if container_type and container_count: containers.append(...)`
ContainerItem(ctype, count) ==
    IF Truthy(ctype) /\ Truthy(count)
    THEN <<[containerType |-> ctype, quantity |-> count]>>
    ELSE <<>>

\* the list built with `if container_type:` alone
Containers_TypeOnly(a) ==
    (IF Truthy(a.container_type)
     THEN <<[containerType |-> a.container_type, quantity |-> a.container_count]>> ELSE <<>>)
        \o (IF Truthy(a.container_type_2)
            THEN <<[containerType |-> a.container_type_2, quantity |-> a.container_count_2]>>
            ELSE <<>>)
        \o (IF Truthy(a.container_type_3)
            THEN <<[containerType |-> a.container_type_3, quantity |-> a.container_count_3]>>
            ELSE <<>>)

\* the list built by __init__: primary, secondary, tertiary
Containers(a) ==
    ContainerItem(a.container_type, a.container_count)
        \o ContainerItem(a.container_type_2, a.container_count_2)
        \o ContainerItem(a.container_type_3, a.container_count_3)

\* the object __init__ leaves behind, given its keyword arguments
BookingFormData(a) ==
    [ customerCode |-> Str(<<"A","U","T","O">>),
      factoryEmail |-> a.contact_email,
      poNumber |-> a.po_number,
      pickupAddress |-> a.origin_address,
      deliveryAddress |-> a.destination_address,
      pol |-> _extract_country(a.origin_address),
      pod |-> _extract_country(a.destination_address),
      cargoReadyDateISO |-> _format_date(a.goods_completion_date),
      goodsRequiredDateISO |-> _format_date(a.delivery_date),
      containerDetails |-> [containers |-> Containers(a)],
      commodityCode |-> a.hs_code,
      incoterms |-> Str(<<"F","O","B">>),
      message |-> a.special_instructions,
      service |-> Str(<<"q","u","o","t","e","_","r","e","q","u","e","s","t","e","d">>),
      originContact |-> a.origin_contact,
      originPhone |-> a.origin_phone,
      destinationContact |-> a.destination_contact,
      destinationPhone |-> a.destination_phone,
      primaryContact |-> a.primary_contact,
      contactPhone |-> a.contact_phone,
      estimateCargoGrossWeight |-> a.estimate_cargo_gross_weight ]

\* no BookingFormData object (construction raised, or none built yet)
NoBooking ==
    [ customerCode |-> None, factoryEmail |-> None, poNumber |-> None,
      pickupAddress |-> None, deliveryAddress |-> None, pol |-> None, pod |-> None,
      cargoReadyDateISO |-> None, goodsRequiredDateISO |-> None,
      containerDetails |-> [containers |-> <<>>], commodityCode |-> None,
      incoterms |-> None, message |-> None, service |-> None,
      originContact |-> None, originPhone |-> None, destinationContact |-> None,
      destinationPhone |-> None, primaryContact |-> None, contactPhone |-> None,
      estimateCargoGrossWeight |-> None ]

\* to_dict(): the dictionary handed to process_booking
to_dict(bd) ==
    [ customerCode |-> bd.customerCode,
      factoryEmail |-> bd.factoryEmail,
      poNumber |-> bd.poNumber,
      pickupAddress |-> bd.pickupAddress,
      deliveryAddress |-> bd.deliveryAddress,
      cargoReadyDateISO |-> bd.cargoReadyDateISO,
      goodsRequiredDateISO |-> bd.goodsRequiredDateISO,
      pol |-> bd.pol,
      pod |-> bd.pod,
      containerDetails |-> bd.containerDetails,
      commodityCode |-> bd.commodityCode,
      incoterms |-> bd.incoterms,
      message |-> bd.message,
      service |-> bd.service,
      contactPerson |-> bd.primaryContact,
      contactEmail |-> bd.factoryEmail,
      contactPhone |-> bd.contactPhone,
      estimateCargoGrossWeight |-> bd.estimateCargoGrossWeight ]

----------------------------------------------------------------------------
(* create_booking_data_from_row *)

\* the first exception raised by a sequence of steps, None when none raises
RECURSIVE FirstRaised(_)
FirstRaised(steps) ==
    IF steps = <<>> THEN None
    ELSE IF IsRaised(Head(steps)) THEN Head(steps)
    ELSE FirstRaised(Tail(steps))

\* int(safe_numeric(raw)) if raw else None
OptionalCount(raw) ==
    IF IsRaised(raw) THEN raw
    ELSE IF Truthy(raw) THEN ToInt(safe_numeric(raw, IntV(0)))
    ELSE None

\* the values create_booking_data_from_row extracts, in program order
ExtractArgs(row) ==
    LET count_raw == get_value(row, <<"Container Count 1", "Container Count", "container_count">>, IntV(1))
    IN
    [ po_number |-> get_value(row, <<"PO Number", "Po Number", "po_number">>, EmptyStr),
      primary_contact |-> get_value(row, <<"Primary Contact", "primary_contact">>, EmptyStr),
      contact_email |-> get_value(row, <<"Contact Email", "Origin Email", "contact_email">>, EmptyStr),
      contact_phone |-> get_value(row, <<"Contact Phone", "contact_phone">>, EmptyStr),
      goods_completion_date |-> get_value(row, <<"Goods Completion Date", "goods_completion_date">>, EmptyStr),
      delivery_date |-> get_value(row, <<"Delivery Date", "delivery_date">>, EmptyStr),
      hs_code |-> get_value(row, <<"Commodity HS Code", "HS Code", "hs_code">>, EmptyStr),
      goods_description |-> get_value(row, <<"Goods Description", "goods_description">>, EmptyStr),
      container_type |-> get_value(row, <<"Container Type 1", "Container Type", "container_type">>, EmptyStr),
      container_count |->
          IF IsRaised(count_raw) THEN count_raw ELSE ToInt(safe_numeric(count_raw, IntV(1))),
      container_type_2 |-> get_value(row, <<"Container Type 2 (optional)">>, EmptyStr),
      container_count_2 |-> OptionalCount(get_value(row, <<"Container Count 2 (optional)">>, EmptyStr)),
      container_type_3 |-> get_value(row, <<"Container Type 3 (optional)">>, EmptyStr),
      container_count_3 |-> OptionalCount(get_value(row, <<"Container Count 3 (optional)">>, EmptyStr)),
      estimate_cargo_gross_weight |->
          LET weight_raw == get_value(row, <<"Estimate Gross Weight per Container (optional)",
                                             "Estimate Cargo Gross Weight",
                                             "estimate_cargo_gross_weight">>, EmptyStr)
          IN  IF IsRaised(weight_raw) THEN weight_raw ELSE safe_numeric(weight_raw, IntV(0)),
      origin_address |-> get_value(row, <<"Pickup Address", "Origin Address", "origin_address">>, EmptyStr),
      origin_contact |-> get_value(row, <<"Origin Contact", "origin_contact">>, EmptyStr),
      origin_phone |-> get_value(row, <<"Origin Phone", "origin_phone">>, EmptyStr),
      destination_address |-> get_value(row, <<"Delivery Address", "Destination Address", "destination_address">>, EmptyStr),
      destination_contact |-> get_value(row, <<"Destination Contact", "destination_contact">>, EmptyStr),
      destination_phone |-> get_value(row, <<"Destination Phone", "destination_phone">>, EmptyStr),
      pol_code |-> get_value(row, <<"POL (Port Code)">>, EmptyStr),
      pod_code |-> get_value(row, <<"POD (Port Code)">>, EmptyStr),
      special_instructions |-> get_value(row, <<"Special Instructions (optional)", "Special Instructions", "special_instructions">>, EmptyStr),
      hazardous |-> get_value(row, <<"Hazardous", "hazardous">>, Str(<<"N","o">>)),
      incoterms |-> get_value(row, <<"Incoterms">>, EmptyStr) ]

\* the order in which the extracted values are computed inside the try block
ExtractOrder ==
    << "primary_contact", "contact_email", "contact_phone", "goods_completion_date",
       "delivery_date", "hs_code", "goods_description", "container_type",
       "container_count", "container_type_2", "container_count_2", "container_type_3",
       "container_count_3", "estimate_cargo_gross_weight", "origin_address",
       "origin_contact", "origin_phone", "destination_address", "destination_contact",
       "destination_phone", "pol_code", "pod_code", "special_instructions",
       "hazardous", "incoterms" >>

\* the overrides applied to the object after construction
ApplyOverrides(bd, a) ==
    [bd EXCEPT !.pol = IF Truthy(a.pol_code) THEN a.pol_code ELSE @,
               !.pod = IF Truthy(a.pod_code) THEN a.pod_code ELSE @,
               !.incoterms = IF Truthy(a.incoterms) THEN a.incoterms ELSE @]

\* create_booking_data_from_row(row, row_index):
\*   [raised |-> <<>>, bd |-> the object]  or  [raised |-> str(e), bd |-> NoBooking]
create_booking_data_from_row(row, row_index) ==
    LET a == ExtractArgs(row)
        obj == BookingFormData(a)
        inTry == FirstRaised([k \in 1..Len(ExtractOrder) |-> a[ExtractOrder[k]]]
                             \o <<obj.pol, obj.pod>>)
        wrapped(e) == <<"Error creating booking data for row ", ToString(row_index), ": ">> \o e.s
    IN  IF IsRaised(a.po_number) THEN [raised |-> a.po_number.s, bd |-> NoBooking]
        ELSE IF IsRaised(inTry) THEN [raised |-> wrapped(inTry), bd |-> NoBooking]
        ELSE [raised |-> <<>>, bd |-> ApplyOverrides(obj, a)]

----------------------------------------------------------------------------
(* validate_booking_data *)

\* required_fields iterated in sorted key order
required_fields_sorted ==
    << "cargoReadyDateISO", "commodityCode", "deliveryAddress", "factoryEmail",
       "goodsRequiredDateISO", "pickupAddress", "poNumber", "pod", "pol" >>

\* the keys of required_fields, in the order the dictionary is written
required_fields ==
    << "poNumber", "factoryEmail", "pickupAddress", "deliveryAddress", "pol", "pod",
       "commodityCode", "cargoReadyDateISO", "goodsRequiredDateISO" >>

\* the missing fields, with the "Unknown" location code counted as missing
missing_fields_UnknownMissing(bd) ==
    SelectSeq(required_fields, LAMBDA f : ~Truthy(bd[f]) \/ bd[f] = Unknown)

\* [field for field, value in required_fields.items() if not value]
missing_fields(bd) == SelectSeq(required_fields, LAMBDA f : ~Truthy(bd[f]))

\* sep.join(names), as the sequence of its pieces
RECURSIVE Join(_, _)
Join(names, sep) ==
    IF Len(names) <= 1 THEN names
    ELSE <<Head(names), sep>> \o Join(Tail(names), sep)

\* the date test of the validator, if it failed the record instead of warning
BadDate(v) == v.kind = "str" /\ ~(Len(v.s) >= 2 /\ v.s[1] = "2" /\ v.s[2] = "0")

\* validate_booking_data that rejects a date not starting with "20"
validate_booking_data_StrictDates(bd) ==
    IF missing_fields(bd) # <<>>
    THEN [result |-> "fail",
          reason |-> <<"Missing required fields: ">> \o Join(missing_fields(bd), ", ")]
    ELSE IF bd.factoryEmail.kind # "str"
    THEN [result |-> "raise", reason |-> <<"TypeError">>]
    ELSE IF ~Contains(bd.factoryEmail.s, <<"@">>)
    THEN [result |-> "fail", reason |-> <<"Invalid email format for factoryEmail">>]
    ELSE IF bd.containerDetails.containers = <<>>
    THEN [result |-> "fail", reason |-> <<"Missing container details">>]
    ELSE IF ~Truthy(bd.containerDetails.containers[1].containerType)
    THEN [result |-> "fail", reason |-> <<"Missing container type">>]
    ELSE IF BadDate(bd.cargoReadyDateISO) \/ BadDate(bd.goodsRequiredDateISO)
    THEN [result |-> "fail", reason |-> <<"Invalid date format">>]
    ELSE [result |-> "pass", reason |-> <<>>]

\* validate_booking_data(booking_data, row_id):
\*   result "pass" = (True, ""), "fail" = (False, reason), "raise" = an exception
validate_booking_data(bd) ==
    IF missing_fields(bd) # <<>>
    THEN [result |-> "fail",
          reason |-> <<"Missing required fields: ">> \o Join(missing_fields(bd), ", ")]
    ELSE IF bd.factoryEmail.kind # "str"
    THEN [result |-> "raise", reason |-> <<"TypeError">>]
    ELSE IF ~Contains(bd.factoryEmail.s, <<"@">>)
    THEN [result |-> "fail", reason |-> <<"Invalid email format for factoryEmail">>]
    ELSE IF bd.containerDetails.containers = <<>>
    THEN [result |-> "fail", reason |-> <<"Missing container details">>]
    ELSE IF ~Truthy(bd.containerDetails.containers[1].containerType)
    THEN [result |-> "fail", reason |-> <<"Missing container type">>]
    ELSE [result |-> "pass", reason |-> <<>>]

----------------------------------------------------------------------------
(* process_booking *)

\* An error / data detail carried by a response dictionary or a row outcome:
\*   t "none"     None
\*   t "str"      a message string, msg holds its pieces
\*   t "message"  {"message": text}; msg holds the pieces of a fixed text, or
\*                len the length of a text taken from the response body
\*   t "raw_text" {"raw_text": text}, len is the length of the text
\*   t "json"     the parsed JSON body, parse names its shape
NoDetail == [t |-> "none", msg |-> <<>>, len |-> 0, parse |-> ""]
StrDetail(m) == [t |-> "str", msg |-> m, len |-> 0, parse |-> ""]
MessageDetail(m) == [t |-> "message", msg |-> m, len |-> 0, parse |-> ""]
MessageTextDetail(l) == [t |-> "message", msg |-> <<>>, len |-> l, parse |-> ""]
RawTextDetail(l) == [t |-> "raw_text", msg |-> <<>>, len |-> l, parse |-> ""]
JsonDetail(shape) == [t |-> "json", msg |-> <<>>, len |-> 0, parse |-> shape]

\* the text cut at the cap with nothing appended
CappedLen_NoMarker(l, cap) == IF l > cap THEN cap ELSE l

\* len(text[:cap] + "..." if len(text) > cap else text)
CappedLen(l, cap) == IF l > cap THEN cap + 3 ELSE l


\* safe_booking_data: the copy of the request body that is logged, with the
\* customer code cut to 3 characters and the e-mail's local part cut to 3
safe_booking_data(body) ==
    [ body EXCEPT
        !.customerCode =
            IF Truthy(@) THEN Str(SubSeq(@.s, 1, Min(3, Len(@.s))) \o <<".", ".", ".">>)
            ELSE None,
        !.factoryEmail =
            IF Truthy(@) /\ @.kind = "str" /\ Contains(@.s, <<"@">>)
            THEN LET parts == Split(@.s, "@")
                 IN  Str(SubSeq(parts[1], 1, Min(3, Len(parts[1])))
                            \o <<".", ".", ".", "@">> \o parts[2])
            ELSE @ ]

\* the headers dictionary: Authorization is built from auth_token[:5]
RequestHeaders(auth_token) ==
    [ ContentType |-> <<"a","p","p","l","i","c","a","t","i","o","n","/","j","s","o","n">>,
      Authorization |->
          IF Truthy(auth_token)
          THEN <<"B","e","a","r","e","r"," ">> \o SubSeq(auth_token.s, 1, Min(5, Len(auth_token.s)))
                   \o <<".", ".", ".">>
          ELSE <<"N","o","n","e">> ]

\* What requests.post does:
\*   kind "response"   a response arrived: status, and body = [parse, len] where
\*                     parse is "dict" (a JSON object whose "data" is absent or an
\*                     object), "dict_data" (a JSON object whose "data" is not an
\*                     object), "value" (JSON that is not an object) or "invalid"
\*                     (not JSON) or "null" (the JSON null, which parses to
\*                     None), and len is the length of the body text
\*   kind "timeout"    requests.exceptions.Timeout
\*   kind "connection" requests.exceptions.ConnectionError
\*   kind "other"      any other exception
NetResponse(status, parse, len) ==
    [kind |-> "response", status |-> status, body |-> [parse |-> parse, len |-> len]]
NetException(kind) == [kind |-> kind, status |-> 0, body |-> [parse |-> "", len |-> 0]]

\* requests.post has not been called
NoCall == NetException("none")

\* response.json() of a body that parses
ParsedBody(parse) == IF parse = "null" THEN NoDetail ELSE JsonDetail(parse)

\* the dictionary process_booking returns (duration_ms left out)
ResponseDict(success, status_code, error, data, po_number) ==
    [ success |-> success, status_code |-> status_code, error |-> error,
      data |-> data, po_number |-> po_number ]

\* process_booking whose `except Exception` clause comes first: a timeout and a
\* connection failure are reported like any other exception
process_booking_GenericFirst(booking, net) ==
    LET po == booking.poNumber
        failure(code, m) == ResponseDict(FALSE, code, MessageDetail(m), NoDetail, po)
    IN
    CASE net.kind = "timeout" ->
            failure(500, <<"Error processing booking: ", "Timeout">>)
      [] net.kind = "connection" ->
            failure(500, <<"Error processing booking: ", "ConnectionError">>)
      [] net.kind = "other" ->
            failure(500, <<"Error processing booking: ", "Exception">>)
      [] net.kind = "response" /\ net.status >= 200 /\ net.status < 300 ->
            IF net.body.parse = "dict_data"
            THEN \* response_data.get("data", {}).get(...) raises AttributeError
                 failure(500, <<"Error processing booking: ", "AttributeError">>)
            ELSE ResponseDict(TRUE, net.status, NoDetail,
                              IF net.body.parse = "invalid"
                              THEN RawTextDetail(CappedLen(net.body.len, 500))
                              ELSE ParsedBody(net.body.parse),
                              po)
      [] OTHER ->
            ResponseDict(FALSE, net.status,
                         IF net.body.parse = "invalid"
                         THEN MessageTextDetail(CappedLen(net.body.len, 200))
                         ELSE ParsedBody(net.body.parse),
                         NoDetail, po)

\* process_booking(booking_data, api_url, auth_token, row_id), given what
\* requests.post did
process_booking(booking, net) ==
    LET po == booking.poNumber
        failure(code, m) == ResponseDict(FALSE, code, MessageDetail(m), NoDetail, po)
    IN
    CASE net.kind = "timeout" ->
            failure(408, <<"API request timed out after 30 seconds">>)
      [] net.kind = "connection" ->
            failure(500, <<"Connection error: ", "ConnectionError">>)
      [] net.kind = "other" ->
            failure(500, <<"Error processing booking: ", "Exception">>)
      [] net.kind = "response" /\ net.status >= 200 /\ net.status < 300 ->
            IF net.body.parse = "dict_data"
            THEN \* response_data.get("data", {}).get(...) raises AttributeError
                 failure(500, <<"Error processing booking: ", "AttributeError">>)
            ELSE ResponseDict(TRUE, net.status, NoDetail,
                              IF net.body.parse = "invalid"
                              THEN RawTextDetail(CappedLen(net.body.len, 500))
                              ELSE ParsedBody(net.body.parse),
                              po)
      [] OTHER ->
            ResponseDict(FALSE, net.status,
                         IF net.body.parse = "invalid"
                         THEN MessageTextDetail(CappedLen(net.body.len, 200))
                         ELSE ParsedBody(net.body.parse),
                         NoDetail, po)

----------------------------------------------------------------------------
(* process_excel_file: the header row of the worksheet *)

\* a frame: its column labels and its rows, each row a sequence of cells
NoFrame == [columns |-> <<>>, rows |-> <<>>]

\* the substrings that mark a header row
po_number_term == <<"p","o"," ","n","u","m","b","e","r">>
header_terms ==
    << po_number_term,
       <<"p","r","i","m","a","r","y"," ","c","o","n","t","a","c","t">> >>

\* the two spellings of the PO number label that make the labels correct
PoNumberLabels ==
    { Str(<<"P","o"," ","N","u","m","b","e","r">>), Str(<<"P","O"," ","N","u","m","b","e","r">>) }

\* the columns whose first values are logged
important_columns ==
    << Str(<<"P","o"," ","N","u","m","b","e","r">>),
       Str(<<"P","O"," ","N","u","m","b","e","r">>),
       Str(<<"P","r","i","m","a","r","y"," ","C","o","n","t","a","c","t">>),
       Str(<<"C","o","n","t","a","c","t"," ","E","m","a","i","l">>) >>

\* any(col for col in cells if isinstance(col, str)
\*                          and any(term in col.lower() for term in terms))
IsHeaderRow(cells, terms) ==
    \E j \in 1..Len(cells) :
        /\ cells[j].kind = "str"
        /\ \E t \in 1..Len(terms) : Contains(LowerStr(cells[j].s), terms[t])

\* df.columns = df.iloc[i]; df = df.drop(i).reset_index(drop=True)
\* (i counts from 1 here): only row i leaves the data
Promote(frame, i) ==
    [ columns |-> frame.rows[i],
      rows |-> SubSeq(frame.rows, 1, i - 1) \o SubSeq(frame.rows, i + 1, Len(frame.rows)) ]

\* for i in range(min(5, len(df))): the first header row from row i on, 0 if none
RECURSIVE FirstHeaderRow(_, _)
FirstHeaderRow(frame, i) ==
    IF i > Min(5, Len(frame.rows)) THEN 0
    ELSE IF IsHeaderRow(frame.rows[i], header_terms) THEN i
    ELSE FirstHeaderRow(frame, i + 1)

\* [col.strip() if isinstance(col, str) else col for col in df.columns]
StripLabels(cols) ==
    [j \in 1..Len(cols) |-> IF cols[j].kind = "str" THEN Str(Strip(cols[j].s)) ELSE cols[j]]

IsEmptyRow(cells) == \A j \in 1..Len(cells) : IsNa(cells[j])

\* df.dropna(how='all')
dropna(rows) == SelectSeq(rows, LAMBDA r : ~IsEmptyRow(r))

\* the label is carried by two columns: df[col] is then a DataFrame, which
\* has no tolist()
LabelTwice(cols, label) == Cardinality({j \in 1..Len(cols) : cols[j] = label}) > 1

\* the header rules with the first row looked at before the labels
LocateHeader_FirstRowFirst(frame) ==
    IF Len(frame.rows) > 0 /\ IsHeaderRow(frame.rows[1], <<po_number_term>>)
    THEN [raised |-> <<>>, df |-> Promote(frame, 1)]
    ELSE IF \E j \in 1..Len(frame.columns) : frame.columns[j] \in PoNumberLabels
    THEN [raised |-> <<>>, df |-> frame]
    ELSE IF Len(frame.rows) = 0
    THEN [raised |-> <<"IndexError">>, df |-> NoFrame]
    ELSE LET i == FirstHeaderRow(frame, 1)
         IN  [raised |-> <<>>, df |-> IF i = 0 THEN frame ELSE Promote(frame, i)]

\* the header rules: [raised |-> <<>>, df |-> frame], or [raised |-> what, ...]
\* when df.iloc[0] is asked of a frame without rows
LocateHeader(frame) ==
    IF \E j \in 1..Len(frame.columns) : frame.columns[j] \in PoNumberLabels
    THEN [raised |-> <<>>, df |-> frame]
    ELSE IF Len(frame.rows) = 0
    THEN [raised |-> <<"IndexError">>, df |-> NoFrame]
    ELSE IF IsHeaderRow(frame.rows[1], <<po_number_term>>)
    THEN [raised |-> <<>>, df |-> Promote(frame, 1)]
    ELSE LET i == FirstHeaderRow(frame, 1)
         IN  [raised |-> <<>>, df |-> IF i = 0 THEN frame ELSE Promote(frame, i)]

\* the frame after the header rules, with the labels stripped and the empty
\* rows dropped
LocateAndClean(frame) ==
    LET located == LocateHeader(frame)
    IN  IF located.raised # <<>> THEN located
        ELSE [ raised |-> <<>>,
               df |-> [ columns |-> StripLabels(located.df.columns),
                        rows |-> dropna(located.df.rows) ] ]

\* process_excel_file after pd.read_excel: the frame above, then the first
\* values of the important columns are logged; any exception is raised again
\* as 'Error processing Excel file: ...'
process_excel_file(frame) ==
    LET cleaned == LocateAndClean(frame)
        wrapped(e) == <<"Error processing Excel file: ">> \o e
    IN  IF cleaned.raised # <<>> THEN [raised |-> wrapped(cleaned.raised), df |-> NoFrame]
        ELSE IF \E k \in 1..Len(important_columns) :
                    LabelTwice(cleaned.df.columns, important_columns[k])
        THEN [raised |-> wrapped(<<"AttributeError">>), df |-> NoFrame]
        ELSE [raised |-> <<>>, df |-> cleaned.df]

----------------------------------------------------------------------------
(* Inputs: column layouts, sheet rows, credentials, network behaviour *)

\* the cells of an order that the model varies
Slots == { "po", "email", "ready", "required", "hs", "type1", "count1", "type2",
           "count2", "type3", "count3", "pickup", "delivery", "pol", "pod", "incoterms" }

\* column labels of the current template, in sheet order
TemplateColumns ==
    << [slot |-> "po", label |-> "PO Number"],
       [slot |-> "email", label |-> "Contact Email"],
       [slot |-> "ready", label |-> "Goods Completion Date"],
       [slot |-> "required", label |-> "Delivery Date"],
       [slot |-> "hs", label |-> "Commodity HS Code"],
       [slot |-> "type1", label |-> "Container Type 1"],
       [slot |-> "count1", label |-> "Container Count 1"],
       [slot |-> "type2", label |-> "Container Type 2 (optional)"],
       [slot |-> "count2", label |-> "Container Count 2 (optional)"],
       [slot |-> "type3", label |-> "Container Type 3 (optional)"],
       [slot |-> "count3", label |-> "Container Count 3 (optional)"],
       [slot |-> "pickup", label |-> "Pickup Address"],
       [slot |-> "delivery", label |-> "Delivery Address"],
       [slot |-> "pol", label |-> "POL (Port Code)"],
       [slot |-> "pod", label |-> "POD (Port Code)"],
       [slot |-> "incoterms", label |-> "Incoterms"] >>

\* the same columns in the opposite order
ReversedColumns ==
    [i \in 1..Len(TemplateColumns) |-> TemplateColumns[Len(TemplateColumns) + 1 - i]]

\* an older sheet: alias spellings, required columns scattered, no optional ones
LegacyColumns ==
    << [slot |-> "delivery", label |-> "Destination Address"],
       [slot |-> "count1", label |-> "Container Count"],
       [slot |-> "required", label |-> "delivery_date"],
       [slot |-> "hs", label |-> "HS Code"],
       [slot |-> "po", label |-> "Po Number"],
       [slot |-> "type1", label |-> "Container Type"],
       [slot |-> "pickup", label |-> "Origin Address"],
       [slot |-> "ready", label |-> "goods_completion_date"],
       [slot |-> "email", label |-> "Origin Email"] >>

Layouts == {TemplateColumns, ReversedColumns, LegacyColumns}

\* a sheet that carries the PO number under all three of its spellings, the
\* later ones of the alias list first
AliasColumns ==
    << [slot |-> "po3", label |-> "po_number"],
       [slot |-> "po2", label |-> "Po Number"] >> \o TemplateColumns

\* a correctly filled-in order
BaseCells ==
    [ po |-> Str(<<"P","1">>),
      email |-> Str(<<"a","@","b">>),
      ready |-> Str(<<"2","0","2","5","-","0","4","-","1","5">>),
      required |-> DateTimeV(<<"2","0","2","5","-","0","5","-","0","1","T","0","0",":","0","0",":","0","0">>),
      hs |-> IntV(8471),
      type1 |-> Str(<<"2","0","G","P">>),
      count1 |-> IntV(2),
      type2 |-> NaN,
      count2 |-> NaN,
      type3 |-> NaN,
      count3 |-> NaN,
      pickup |-> Str(<<"X",","," ","U","S">>),
      delivery |-> Str(<<"Y",",","F","r","a","n","c","e">>),
      pol |-> NaN,
      pod |-> NaN,
      incoterms |-> NaN ]

\* other contents a cell may have
AltCells ==
    [ po |-> {NaN, EmptyStr, IntV(0), IntV(7)},
      email |-> {NaN, EmptyStr, Str(<<"a","b">>), IntV(5)},
      ready |-> {NaN, EmptyStr, Str(<<"x">>), Str(<<"0","4","/","0","5","/","2","0","2","5">>)},
      required |-> {NaN, IntV(0), Str(<<"1","2","/","3","1","/","2","0","2","5">>)},
      hs |-> {NaN, IntV(0), Str(<<"H">>)},
      type1 |-> {NaN, EmptyStr},
      count1 |-> {NaN, IntV(0), IntV(-1), FloatV(5), Str(<<"i","n","f">>), Str(<<"a","b">>)},
      type2 |-> {Str(<<"4","0","H","C">>)},
      count2 |-> {IntV(1), Str(<<"0">>)},
      type3 |-> {},
      count3 |-> {},
      pickup |-> {NaN, IntV(5), Str(<<" ">>), Str(<<"A",",","U","n","k","n","o","w","n">>)},
      delivery |-> {NaN, Str(<<"U","n","k","n","o","w","n">>)},
      pol |-> {Unknown, Str(<<"C","N","S","H","A">>)},
      pod |-> {Unknown},
      incoterms |-> {Str(<<"C","I","F">>)} ]

\* the orders that differ from BaseCells in at most d cells
RECURSIVE CellsWithin(_)
CellsWithin(d) ==
    IF d = 0 THEN {BaseCells}
    ELSE LET less == CellsWithin(d - 1)
         IN  less \cup UNION { { [c EXCEPT ![sl] = a] : a \in AltCells[sl] } :
                               c \in less, sl \in Slots }

\* the correct order with any mix of missing, blank and filled PO number cells
AliasCells ==
    { [sl \in Slots \cup {"po2", "po3"} |->
          CASE sl = "po" -> a [] sl = "po2" -> b [] sl = "po3" -> c [] OTHER -> BaseCells[sl]] :
      a \in {NaN, EmptyStr, Str(<<"P","1">>)},
      b \in {NaN, EmptyStr, Str(<<"P","2">>)},
      c \in {NaN, Str(<<"P","3">>)} }

\* free-text addresses: one segment, a country in and out of the last three
\* segments, two countries, other spellings, an empty last segment, and each
\* recognized country as the last segment
Addresses ==
    { EmptyStr,
      Str(<<"Q">>),
      Str(<<"C","h","i","n","a",",","a",",","b",",","c">>),
      Str(<<"F","r","a","n","c","e",",","x",",","y">>),
      Str(<<"U","K",","," ","j","a","p","a","n">>),
      Str(<<"A","u","s","t","r","a","l","i","a">>),
      Str(<<"U","S","A">>),
      Str(<<"Q",","," ">>) }
        \cup { Str(<<"Q", ",", " ">> \o country_candidates[k]) :
                 k \in 1..Len(country_candidates) }

\* the correct order with another pickup or delivery address
AddressCells ==
    { [BaseCells EXCEPT !.pickup = a] : a \in Addresses }
        \cup { [BaseCells EXCEPT !.delivery = a] : a \in Addresses }

\* the correct order with any mix of present and absent container types and
\* of absent, zero and positive container counts
ContainerCells ==
    { [BaseCells EXCEPT !.type1 = t1, !.count1 = c1, !.type2 = t2, !.count2 = c2,
                        !.type3 = t3, !.count3 = c3] :
      t1 \in {NaN, Str(<<"2","0","G","P">>)}, c1 \in {NaN, IntV(0), IntV(2)},
      t2 \in {NaN, Str(<<"4","0","H","C">>)}, c2 \in {NaN, IntV(0), IntV(1)},
      t3 \in {NaN, Str(<<"4","5","H","C">>)}, c3 \in {NaN, IntV(0), IntV(3)} }

\* the template with a service type column added after its last column
ServiceColumns ==
    TemplateColumns \o << [slot |-> "service", label |-> "Service Type"] >>

\* the correct order with any mix of absent, blank and filled port code,
\* incoterms and service type cells
ServiceCells ==
    { [sl \in Slots \cup {"service"} |->
          CASE sl = "pol" -> a [] sl = "pod" -> b [] sl = "incoterms" -> c
            [] sl = "service" -> d [] OTHER -> BaseCells[sl]] :
      a \in {NaN, EmptyStr, Str(<<"C","N","S","H","A">>)},
      b \in {NaN, Str(<<"U","S","L","A","X">>)},
      c \in {NaN, EmptyStr, Str(<<"C","I","F">>)},
      d \in {NaN, EmptyStr, Str(<<"b","o","o","k","e","d">>)} }

\* the row (Series) that holds the cells under a column layout
RowOf(cols, cells) ==
    [i \in 1..Len(cols) |-> [label |-> cols[i].label, value |-> cells[cols[i].slot]]]

\* the labels pd.read_excel may give a two-column worksheet: the template's,
\* an older spelling, none (an empty first line), a label with a leading
\* space, two labels that differ in a trailing space
SheetLabels ==
    { << Str(<<"P","O"," ","N","u","m","b","e","r">>),
         Str(<<"C","o","n","t","a","c","t"," ","E","m","a","i","l">>) >>,
      << Str(<<"P","o"," ","N","u","m","b","e","r">>),
         Str(<<"C","o","n","t","a","c","t"," ","E","m","a","i","l">>) >>,
      << Str(<<"U","n","n","a","m","e","d",":"," ","0">>),
         Str(<<"U","n","n","a","m","e","d",":"," ","1">>) >>,
      << Str(<<" ","P","O"," ","N","u","m","b","e","r">>),
         Str(<<"C","o","n","t","a","c","t"," ","E","m","a","i","l">>) >>,
      << Str(<<"C","o","n","t","a","c","t"," ","E","m","a","i","l">>),
         Str(<<"C","o","n","t","a","c","t"," ","E","m","a","i","l"," ">>) >> }

\* the lines a worksheet may hold below its first one: header lines (the
\* template's, a lower-case one with spaces around it, one without a PO
\* number, one with the PO number twice), orders, an empty line
SheetLines ==
    { << Str(<<"P","O"," ","N","u","m","b","e","r">>),
         Str(<<"C","o","n","t","a","c","t"," ","E","m","a","i","l">>) >>,
      << Str(<<" ","p","o"," ","n","u","m","b","e","r"," ">>), NaN >>,
      << Str(<<"P","r","i","m","a","r","y"," ","C","o","n","t","a","c","t">>),
         Str(<<"C","o","n","t","a","c","t"," ","E","m","a","i","l">>) >>,
      << Str(<<"P","O"," ","N","u","m","b","e","r">>),
         Str(<<"P","O"," ","N","u","m","b","e","r">>) >>,
      << Str(<<"P","1">>), Str(<<"a","@","b">>) >>,
      << IntV(7), NaN >>,
      << NaN, NaN >> }

\* the sequences of at most n lines
RECURSIVE LinesUpTo(_)
LinesUpTo(n) ==
    IF n = 0 THEN { <<>> }
    ELSE LET less == LinesUpTo(n - 1)
         IN  less \cup { Append(ls, l) : ls \in less, l \in SheetLines }

\* worksheets whose header line lies k lines below the first one, for k on
\* both sides of the five rows that are scanned, with an order after it
DeepSheets ==
    { [ columns |-> << Str(<<"U","n","n","a","m","e","d",":"," ","0">>),
                       Str(<<"U","n","n","a","m","e","d",":"," ","1">>) >>,
        rows |-> [j \in 1..k |-> << IntV(j), NaN >>]
                    \o << h, << Str(<<"P","1">>), Str(<<"a","@","b">>) >> >> ] :
      k \in 0..6,
      h \in { << Str(<<"P","O"," ","N","u","m","b","e","r">>),
                 Str(<<"C","o","n","t","a","c","t"," ","E","m","a","i","l">>) >>,
              << Str(<<"P","r","i","m","a","r","y"," ","C","o","n","t","a","c","t">>),
                 Str(<<"C","o","n","t","a","c","t"," ","E","m","a","i","l">>) >> } }

\* what pd.read_excel may return
RawSheets ==
    { [columns |-> c, rows |-> r] : c \in SheetLabels, r \in LinesUpTo(MaxSheetRows) }
        \cup DeepSheets

\* --api-url: required, but may be given empty
ApiUrls == {EmptyStr, Str(<<"h","t","t","p",":","/","/","a","p","i">>)}
\* --auth-token: optional
AuthTokens == {None, Str(<<"s","e","c","r","e","t","-","t","o","k","e","n">>)}

\* the orders of a batch sheet: the correct one and one per way of going wrong
BatchCells ==
    { BaseCells,
      [BaseCells EXCEPT !.email = NaN],
      [BaseCells EXCEPT !.email = Str(<<"a","b">>)],
      [BaseCells EXCEPT !.email = IntV(5)],
      [BaseCells EXCEPT !.count1 = Str(<<"i","n","f">>)],
      [BaseCells EXCEPT !.type1 = NaN],
      [BaseCells EXCEPT !.po = NaN, !.ready = NaN],
      [BaseCells EXCEPT !.pickup = NaN],
      [BaseCells EXCEPT !.pickup = Str(<<"A",",","U","n","k","n","o","w","n">>)],
      [BaseCells EXCEPT !.pod = Unknown],
      [BaseCells EXCEPT !.ready = Str(<<"x">>)],
      [BaseCells EXCEPT !.delivery = EmptyStr],
      [BaseCells EXCEPT !.pickup = NaN, !.pol = Str(<<"C","N","S","H","A">>)] }

BatchRows == { RowOf(TemplateColumns, c) : c \in BatchCells }

\* what requests.post may do to a request of the batch
BatchNet ==
    { NetResponse(200, "dict", 10), NetResponse(200, "dict_data", 10),
      NetResponse(404, "invalid", 10), NetResponse(404, "null", 4),
      NetException("timeout"), NetException("connection"), NetException("other") }

----------------------------------------------------------------------------
(* main: the batch loop *)

VARIABLES
    pc,            \* position in main
    api_url,       \* args.api_url
    auth_token,    \* args.auth_token
    columns,       \* df.columns (with the cell each column holds)
    nrows,         \* len(df)
    index,         \* position of the row being processed
    row,           \* the row of the current iteration
    booking_data,  \* the object built for the current row
    raised,        \* str(e) of the exception the current row raised, <<>> if none
    validation,    \* (is_valid, error_msg) of the current row
    results,       \* the list of row outcomes
    calls,         \* the requests.post calls made so far
    in_flight,     \* rows whose requests.post has not returned yet
    validated,     \* what validate_booking_data returned, row by row
    post_outcome,  \* what requests.post did for the latest call
    summary,       \* the counts of the summary line
    top_errors,    \* batch-level errors logged by main
    exit_code,     \* what main returns (-1 while running)
    sheet,         \* what pd.read_excel returns for the worksheet
    df             \* the frame process_excel_file returned

vars == << pc, api_url, auth_token, columns, nrows, index, row, booking_data, raised,
           validation, results, calls, in_flight, validated, post_outcome, summary, top_errors,
           exit_code, sheet, df >>

NoValidation == [result |-> "none", reason |-> <<>>]
NoSummary == [total |-> -1, successful |-> -1, failed |-> -1]

\* a row outcome: a dictionary with the keys in `keys`
Outcome(keys, idx, po, success, status_code, error, data, status) ==
    [ keys |-> keys, row |-> idx, po_number |-> po, success |-> success,
      status_code |-> status_code, error |-> error, data |-> data, status |-> status ]

\* results.append({"row", "po_number", "success": False, "error": error_msg})
ValidationFailed(idx, bd, error_msg) ==
    Outcome({"row", "po_number", "success", "error"}, idx, bd.poNumber, FALSE, 0,
            StrDetail(error_msg), NoDetail, <<>>)

\* results.append({"row", "success": False, "error": str(e)})
RowRaised(idx, e) ==
    Outcome({"row", "success", "error"}, idx, None, FALSE, 0, StrDetail(e), NoDetail, <<>>)

\* results.append({"row", "po_number", "success", "status_code", "error", "data"})
Submitted(idx, bd, response) ==
    Outcome({"row", "po_number", "success", "status_code", "error", "data"}, idx,
            bd.poNumber, response.success, response.status_code, response.error,
            response.data, <<>>)

\* results.append({"row", "po_number", "success": True, "status": ...})
DryRun(idx, bd) ==
    Outcome({"row", "po_number", "success", "status"}, idx, bd.poNumber, TRUE, 0,
            NoDetail, NoDetail, <<"validated but not submitted (dry run)">>)

\* SuccessCount that tests for the key instead of its value
SuccessCount_KeyPresent(rs) ==
    Cardinality({i \in 1..Len(rs) : "success" \in rs[i].keys})

\* sum(1 for r in results if r.get("success"))
SuccessCount(rs) ==
    Cardinality({i \in 1..Len(rs) : "success" \in rs[i].keys /\ rs[i].success})

\* the summary line: processed, successful, failed
Summary(rs) ==
    [ total |-> Len(rs), successful |-> SuccessCount(rs),
      failed |-> Len(rs) - SuccessCount(rs) ]

Init ==
    /\ pc = "start"
    /\ api_url \in ApiUrls
    /\ auth_token \in AuthTokens
    /\ columns = TemplateColumns
    /\ nrows = 0
    /\ index = 0
    /\ row = <<>>
    /\ booking_data = NoBooking
    /\ raised = <<>>
    /\ validation = NoValidation
    /\ results = <<>>
    /\ calls = <<>>
    /\ in_flight = {}
    /\ validated = <<>>
    /\ post_outcome = NoCall
    /\ summary = NoSummary
    /\ top_errors = <<>>
    /\ exit_code = -1
    /\ sheet = NoFrame
    /\ df = NoFrame

\* os.path.exists fails: main returns 1 before reading anything
FileMissing ==
    /\ pc = "start"
    /\ top_errors' = Append(top_errors, "Excel file not found")
    /\ exit_code' = 1
    /\ pc' = "done"
    /\ UNCHANGED << api_url, auth_token, columns, nrows, index, row, booking_data, raised,
                    validation, results, calls, in_flight, validated, summary, post_outcome,
                    sheet, df >>

\* LoadFails with the exception swallowed: the error is logged and the loop
\* still runs over some frame
LoadFails_Continues ==
    /\ pc = "start"
    /\ top_errors' = Append(top_errors, "Error in main execution")
    /\ \E n \in 1..MaxRows : nrows' = n
    /\ pc' = "loop"
    /\ UNCHANGED << api_url, auth_token, columns, index, row, booking_data, raised,
                    validation, results, calls, in_flight, validated, summary, exit_code, post_outcome,
                    sheet, df >>

\* open() or process_excel_file raises: the outer except logs and returns 1
LoadFails ==
    /\ pc = "start"
    /\ top_errors' = Append(top_errors, "Error in main execution")
    /\ exit_code' = 1
    /\ pc' = "done"
    /\ UNCHANGED << api_url, auth_token, columns, nrows, index, row, booking_data, raised,
                    validation, results, calls, in_flight, validated, summary, post_outcome,
                    sheet, df >>

\* process_excel_file returns a frame of 0..MaxRows rows; results = []
Load ==
    /\ pc = "start"
    /\ \E n \in 0..MaxRows : nrows' = n
    /\ results' = <<>>
    /\ index' = 0
    /\ pc' = "loop"
    /\ UNCHANGED << api_url, auth_token, columns, row, booking_data, raised, validation,
                    calls, in_flight, validated, summary, top_errors, exit_code, post_outcome,
                    sheet, df >>

\* for index, row in df.iterrows(): the next row
NextRow ==
    /\ pc = "loop"
    /\ index < nrows
    /\ \E r \in BatchRows : row' = r
    /\ pc' = "build"
    /\ UNCHANGED << api_url, auth_token, columns, nrows, index, booking_data, raised,
                    validation, results, calls, in_flight, validated, summary, top_errors,
                    exit_code, post_outcome,
                    sheet, df >>

\* Build without the try/except of the row: the exception reaches the outer
\* handler of main, which ends the batch
Build_Escapes ==
    /\ pc = "build"
    /\ LET r == create_booking_data_from_row(row, index)
       IN  /\ booking_data' = r.bd
           /\ raised' = r.raised
           /\ IF r.raised # <<>>
              THEN /\ top_errors' = Append(top_errors, "Error in main execution")
                   /\ exit_code' = 1
                   /\ pc' = "done"
              ELSE /\ pc' = "validate"
                   /\ UNCHANGED << top_errors, exit_code >>
    /\ UNCHANGED << api_url, auth_token, columns, nrows, index, row, validation, results,
                    calls, in_flight, validated, summary, post_outcome,
                    sheet, df >>

\* booking_data = create_booking_data_from_row(row, index); an exception goes to
\* the except clause of the row, which appends the outcome
Build ==
    /\ pc = "build"
    /\ LET r == create_booking_data_from_row(row, index)
       IN  /\ booking_data' = r.bd
           /\ raised' = r.raised
           /\ IF r.raised # <<>>
              THEN /\ results' = Append(results, RowRaised(index, r.raised))
                   /\ index' = index + 1
                   /\ pc' = "loop"
              ELSE /\ pc' = "validate"
                   /\ UNCHANGED << results, index >>
    /\ UNCHANGED << api_url, auth_token, columns, nrows, row, validation, calls,
                    in_flight, validated, summary, top_errors, exit_code, post_outcome,
                    sheet, df >>

\* is_valid, error_msg as returned for the row idx, with the record's PO number
Returned(idx, bd, v) ==
    [row |-> idx, is_valid |-> v.result = "pass", error_msg |-> v.reason, po |-> bd.poNumber]

\* Validate without the `continue`: an invalid row is reported and submitted
Validate_NoContinue ==
    /\ pc = "validate"
    /\ LET v == validate_booking_data(booking_data)
       IN  /\ validation' = v
           /\ validated' = Append(validated, Returned(index, booking_data, v))
           /\ results' = IF v.result = "pass" THEN results
                         ELSE Append(results, ValidationFailed(index, booking_data, v.reason))
           /\ pc' = "submit"
    /\ UNCHANGED << api_url, auth_token, columns, nrows, index, row, booking_data, raised,
                    calls, in_flight, summary, top_errors, exit_code, post_outcome,
                    sheet, df >>

\* is_valid, error_msg = validate_booking_data(...); not valid: append and
\* continue; valid and no api_url: the dry-run outcome
Validate ==
    /\ pc = "validate"
    /\ LET v == validate_booking_data(booking_data)
       IN  /\ validation' = v
           /\ CASE v.result = "fail" ->
                     /\ validated' = Append(validated, Returned(index, booking_data, v))
                     /\ results' = Append(results, ValidationFailed(index, booking_data, v.reason))
                     /\ index' = index + 1
                     /\ pc' = "loop"
                     /\ UNCHANGED raised
                [] v.result = "raise" ->
                     /\ raised' = v.reason
                     /\ results' = Append(results, RowRaised(index, v.reason))
                     /\ index' = index + 1
                     /\ pc' = "loop"
                     /\ UNCHANGED validated
                [] OTHER ->
                     /\ validated' = Append(validated, Returned(index, booking_data, v))
                     /\ UNCHANGED raised
                     /\ IF Truthy(api_url)
                        THEN /\ pc' = "submit"
                             /\ UNCHANGED << results, index >>
                        ELSE /\ results' = Append(results, DryRun(index, booking_data))
                             /\ index' = index + 1
                             /\ pc' = "loop"
    /\ UNCHANGED << api_url, auth_token, columns, nrows, row, booking_data, calls,
                    in_flight, summary, top_errors, exit_code, post_outcome,
                    sheet, df >>

\* Send that does not wait for the response: the loop goes on to the next row
Send_NoWait ==
    /\ pc = "submit"
    /\ calls' = Append(calls, [ row |-> index,
                                headers |-> RequestHeaders(auth_token),
                                json |-> to_dict(booking_data),
                                logged |-> safe_booking_data(to_dict(booking_data)) ])
    /\ in_flight' = in_flight \cup {index}
    /\ index' = index + 1
    /\ pc' = "loop"
    /\ UNCHANGED << api_url, auth_token, columns, nrows, row, booking_data, raised,
                    validation, results, validated, summary, top_errors, exit_code, post_outcome,
                    sheet, df >>

\* Send with the masking applied to the request body itself, not to a copy
Send_Masked ==
    /\ pc = "submit"
    /\ calls' = Append(calls, [ row |-> index,
                                headers |-> RequestHeaders(auth_token),
                                json |-> safe_booking_data(to_dict(booking_data)),
                                logged |-> safe_booking_data(to_dict(booking_data)) ])
    /\ in_flight' = in_flight \cup {index}
    /\ pc' = "await"
    /\ UNCHANGED << api_url, auth_token, columns, nrows, index, row, booking_data, raised,
                    validation, results, validated, summary, top_errors, exit_code, post_outcome,
                    sheet, df >>

\* process_booking up to requests.post(api_url, headers=headers, json=booking_data)
Send ==
    /\ pc = "submit"
    /\ calls' = Append(calls, [ row |-> index,
                                headers |-> RequestHeaders(auth_token),
                                json |-> to_dict(booking_data),
                                logged |-> safe_booking_data(to_dict(booking_data)) ])
    /\ in_flight' = in_flight \cup {index}
    /\ pc' = "await"
    /\ UNCHANGED << api_url, auth_token, columns, nrows, index, row, booking_data, raised,
                    validation, results, validated, summary, top_errors, exit_code, post_outcome,
                    sheet, df >>

\* Receive with a retry policy: a timeout sends the request again
Receive_Retry ==
    /\ pc = "await"
    /\ \E net \in BatchNet :
          /\ post_outcome' = net
          /\ IF net.kind = "timeout"
             THEN /\ pc' = "submit"
                  /\ UNCHANGED << results, index >>
             ELSE /\ results' = Append(results,
                                       Submitted(index, booking_data,
                                                 process_booking(to_dict(booking_data), net)))
                  /\ index' = index + 1
                  /\ pc' = "loop"
    /\ in_flight' = in_flight \ {index}
    /\ UNCHANGED << api_url, auth_token, columns, nrows, row, booking_data, raised,
                    validation, calls, validated, summary, top_errors, exit_code,
                    sheet, df >>

\* requests.post returns or raises as one of `nets`; process_booking classifies;
\* main appends
ReceiveFrom(nets) ==
    /\ pc = "await"
    /\ \E net \in nets :
          /\ post_outcome' = net
          /\ results' = Append(results,
                               Submitted(index, booking_data,
                                         process_booking(to_dict(booking_data), net)))
    /\ in_flight' = in_flight \ {index}
    /\ index' = index + 1
    /\ pc' = "loop"
    /\ UNCHANGED << api_url, auth_token, columns, nrows, row, booking_data, raised,
                    validation, calls, validated, summary, top_errors, exit_code,
                    sheet, df >>

\* the response of a batch request
Receive == ReceiveFrom(BatchNet)

\* the loop is over: the summary line, return 0
Finish ==
    /\ pc = "loop"
    /\ index >= nrows
    /\ summary' = Summary(results)
    /\ exit_code' = 0
    /\ pc' = "done"
    /\ UNCHANGED << api_url, auth_token, columns, nrows, index, row, booking_data, raised,
                    validation, results, calls, in_flight, validated, top_errors, post_outcome,
                    sheet, df >>

Next ==
    \/ FileMissing
    \/ LoadFails
    \/ Load
    \/ NextRow
    \/ Build
    \/ Validate
    \/ Send
    \/ Receive
    \/ Finish

Spec == Init /\ [][Next]_vars

----------------------------------------------------------------------------
(* One row at a time: create_booking_data_from_row, then validate_booking_data, *)
(* for any order within MaxDev cells of the correct one, under every layout     *)

RowInit ==
    /\ pc = "row"
    /\ api_url = EmptyStr
    /\ auth_token = None
    /\ nrows = 1
    /\ index = 0
    /\ \/ /\ columns \in Layouts
          /\ \E c \in CellsWithin(MaxDev) : row = RowOf(columns, c)
       \/ /\ columns = AliasColumns
          /\ \E c \in AliasCells : row = RowOf(columns, c)
       \/ /\ columns = TemplateColumns
          /\ \E c \in AddressCells \cup ContainerCells : row = RowOf(columns, c)
       \/ /\ columns = ServiceColumns
          /\ \E c \in ServiceCells : row = RowOf(columns, c)
    /\ booking_data = NoBooking
    /\ raised = <<>>
    /\ validation = NoValidation
    /\ results = <<>>
    /\ calls = <<>>
    /\ in_flight = {}
    /\ validated = <<>>
    /\ post_outcome = NoCall
    /\ summary = NoSummary
    /\ top_errors = <<>>
    /\ exit_code = -1
    /\ sheet = NoFrame
    /\ df = NoFrame

\* booking_data = create_booking_data_from_row(row, index)
RowBuild ==
    /\ pc = "row"
    /\ LET r == create_booking_data_from_row(row, index)
       IN  /\ booking_data' = r.bd
           /\ raised' = r.raised
           /\ pc' = IF r.raised # <<>> THEN "row_raised" ELSE "row_built"
    /\ UNCHANGED << api_url, auth_token, columns, nrows, index, row, validation, results,
                    calls, in_flight, validated, summary, top_errors, exit_code, post_outcome,
                    sheet, df >>

\* is_valid, error_msg = validate_booking_data(booking_data, row_id)
RowValidate ==
    /\ pc = "row_built"
    /\ validation' = validate_booking_data(booking_data)
    /\ pc' = "row_validated"
    /\ UNCHANGED << api_url, auth_token, columns, nrows, index, row, booking_data, raised,
                    results, calls, in_flight, validated, summary, top_errors, exit_code, post_outcome,
                    sheet, df >>

RowNext ==
    \/ RowBuild
    \/ RowValidate

RowSpec == RowInit /\ [][RowNext]_vars

----------------------------------------------------------------------------
(* One call of process_booking for a validated record, under any credential   *)
(* and anything requests.post may do                                          *)

\* --auth-token: absent, empty, shorter than five characters, longer
SubmitTokens ==
    { None, EmptyStr, Str(<<"a","b","c">>),
      Str(<<"s","e","c","r","e","t","-","t","o","k","e","n">>) }

\* orders whose records pass validation
SubmitCells ==
    { BaseCells,
      [BaseCells EXCEPT !.type2 = Str(<<"4","0","H","C">>), !.count2 = IntV(1)],
      [BaseCells EXCEPT !.ready = Str(<<"x">>), !.incoterms = Str(<<"C","I","F">>)],
      [BaseCells EXCEPT !.email = Str(<<"s","a","l","e","s","@","x",".","y">>)] }

SubmitRecords ==
    { create_booking_data_from_row(RowOf(TemplateColumns, c), 0).bd : c \in SubmitCells }

\* response.status_code: both sides of 200 and of 300, and error statuses
StatusCodes == {199, 200, 204, 299, 300, 404, 500}
\* len(response.text): both sides of the caps at 200 and 500
BodyLengths == {0, 200, 201, 500, 501}

\* everything requests.post may do
NetOutcomes ==
    { NetResponse(st, parse, 10) :
          st \in StatusCodes, parse \in {"dict", "dict_data", "value", "null"} }
        \cup { NetResponse(st, "invalid", l) : st \in StatusCodes, l \in BodyLengths }
        \cup { NetException("timeout"), NetException("connection"), NetException("other") }

SubmitInit ==
    /\ pc = "submit"
    /\ api_url = Str(<<"h","t","t","p",":","/","/","a","p","i">>)
    /\ auth_token \in SubmitTokens
    /\ columns = TemplateColumns
    /\ nrows = 1
    /\ index = 0
    /\ row = <<>>
    /\ booking_data \in SubmitRecords
    /\ raised = <<>>
    /\ validation = [result |-> "pass", reason |-> <<>>]
    /\ results = <<>>
    /\ calls = <<>>
    /\ in_flight = {}
    /\ validated = <<>>
    /\ post_outcome = NoCall
    /\ summary = NoSummary
    /\ top_errors = <<>>
    /\ exit_code = -1
    /\ sheet = NoFrame
    /\ df = NoFrame

\* the response or exception of the call
SubmitReceive == ReceiveFrom(NetOutcomes)

SubmitNext ==
    \/ Send
    \/ SubmitReceive

SubmitSpec == SubmitInit /\ [][SubmitNext]_vars

----------------------------------------------------------------------------
(* The load step of main alone: process_excel_file on any worksheet *)

SheetInit ==
    /\ pc = "start"
    /\ api_url = EmptyStr
    /\ auth_token = None
    /\ columns = TemplateColumns
    /\ nrows = 0
    /\ index = 0
    /\ row = <<>>
    /\ booking_data = NoBooking
    /\ raised = <<>>
    /\ validation = NoValidation
    /\ results = <<>>
    /\ calls = <<>>
    /\ in_flight = {}
    /\ validated = <<>>
    /\ post_outcome = NoCall
    /\ summary = NoSummary
    /\ top_errors = <<>>
    /\ exit_code = -1
    /\ sheet \in RawSheets
    /\ df = NoFrame

\* df = process_excel_file(file_content) returns; results = []
SheetLoad ==
    /\ pc = "start"
    /\ LET r == process_excel_file(sheet)
       IN  /\ r.raised = <<>>
           /\ df' = r.df
           /\ nrows' = Len(r.df.rows)
    /\ results' = <<>>
    /\ index' = 0
    /\ pc' = "loop"
    /\ UNCHANGED << api_url, auth_token, columns, row, booking_data, raised, validation,
                    calls, in_flight, validated, summary, top_errors, exit_code, post_outcome,
                    sheet >>

\* process_excel_file raises: the outer except of main logs and returns 1
SheetLoadFails ==
    /\ pc = "start"
    /\ process_excel_file(sheet).raised # <<>>
    /\ top_errors' = Append(top_errors, "Error in main execution")
    /\ exit_code' = 1
    /\ pc' = "done"
    /\ UNCHANGED << api_url, auth_token, columns, nrows, index, row, booking_data, raised,
                    validation, results, calls, in_flight, validated, summary, post_outcome,
                    sheet, df >>

SheetNext ==
    \/ SheetLoad
    \/ SheetLoadFails

SheetSpec == SheetInit /\ [][SheetNext]_vars

----------------------------------------------------------------------------
(* Properties of the batch loop (Spec) *)

\* the sheet was loaded: the loop ran, or main returned 0
Loaded == nrows > 0 \/ exit_code = 0

\* a failed outcome says why: an error detail, or the status code of the response
HasReason(o) ==
    \/ "error" \in o.keys /\ o.error.t # "none"
    \/ "status_code" \in o.keys /\ o.status_code # 0

\* the rows for which validate_booking_data returned (True, "")
PassedRows == { validated[j].row : j \in { i \in 1..Len(validated) : validated[i].is_valid } }
\* the rows for which requests.post was called
CalledRows == { calls[c].row : c \in 1..Len(calls) }

\* C1: once a sheet of N rows is loaded, main ends with exactly N outcomes, the
\* k-th being that of row k, each with a success flag and, when failed, a
\* reason; no failure of a row (construction, validation, submission) stops the
\* rows after it.
C1_EveryRowReported ==
    (pc = "done" /\ Loaded) =>
        /\ exit_code = 0
        /\ Len(results) = nrows
        /\ \A k \in 1..Len(results) :
              /\ results[k].row = k - 1
              /\ "success" \in results[k].keys
              /\ (~results[k].success => HasReason(results[k]))

\* a first row whose construction raised, followed by a row that was submitted
C1_Witness ==
    /\ pc = "done"
    /\ Len(results) = 2
    /\ results[1].keys = {"row", "success", "error"}
    /\ raised = <<>>
    /\ "status_code" \in results[2].keys

\* C2: a row for which validate_booking_data returned not valid is never the
\* subject of a requests.post call, and its outcome is the validation failure:
\* success False, the validator's reason and the PO number of the record.
C2_InvalidNeverSubmitted ==
    \A j \in 1..Len(validated) :
        ~validated[j].is_valid =>
            /\ validated[j].row \notin CalledRows
            /\ Len(results) > validated[j].row
            /\ LET o == results[validated[j].row + 1]
               IN  /\ o.keys = {"row", "po_number", "success", "error"}
                   /\ o.row = validated[j].row
                   /\ o.success = FALSE
                   /\ o.error.t = "str"
                   /\ o.error.msg = validated[j].error_msg
                   /\ o.error.msg # <<>>
                   /\ o.po_number = validated[j].po

\* an invalid row reported in a batch whose other row was submitted
C2_Witness ==
    /\ pc = "done"
    /\ Len(validated) = 2
    /\ ~validated[1].is_valid
    /\ validated[1].po.kind = "str"
    /\ CalledRows = {1}

\* C3 as stated: in any batch the number of network calls equals the number of
\* rows that passed validation.
C3_CallsEqualPassed ==
    (pc = "done" /\ exit_code = 0) => Len(calls) = Cardinality(PassedRows)

\* C3 amended: no row is called twice (a failed attempt is not retried) and only
\* rows that passed validation are called; with a non-empty api_url the number
\* of calls equals the number of rows that passed validation, and with an empty
\* api_url (dry run) no call is made.
C3_OneCallPerPassedRow ==
    /\ \A c1, c2 \in 1..Len(calls) : calls[c1].row = calls[c2].row => c1 = c2
    /\ CalledRows \subseteq PassedRows
    /\ (Truthy(api_url) /\ pc \in {"loop", "done"}) => Len(calls) = Cardinality(PassedRows)
    /\ ~Truthy(api_url) => calls = <<>>

\* a batch with an invalid row and a submitted row whose request timed out
C3_Witness ==
    /\ pc = "done"
    /\ nrows = 2
    /\ Len(validated) = 2
    /\ Len(calls) = 1
    /\ \E k \in 1..Len(results) : results[k].status_code = 408

\* C4: rows are processed one at a time in sheet order: while a row is being
\* processed every earlier row has its outcome in the report and no later row
\* has one, the report and the calls are in sheet order, and at most one
\* request is in flight, that of the current row.
C4_OneRowAtATime ==
    /\ Cardinality(in_flight) <= 1
    /\ in_flight # {} => (pc = "await" /\ in_flight = {index})
    /\ pc \in {"loop", "build", "validate", "submit", "await"} => Len(results) = index
    /\ \A k \in 1..Len(results) : results[k].row = k - 1
    /\ \A c1, c2 \in 1..Len(calls) : c1 < c2 => calls[c1].row < calls[c2].row

\* the request of the second row in flight after the first row was submitted
C4_Witness ==
    /\ pc = "await"
    /\ index = 1
    /\ in_flight = {1}
    /\ Len(calls) = 2
    /\ Len(results) = 1

\* C5: when loading the sheet raises, main logs one batch-level failure and
\* returns 1, with no row outcome and no network call.
C5_LoadFailureAbortsBatch ==
    (\E k \in 1..Len(top_errors) : top_errors[k] = "Error in main execution") =>
        /\ pc = "done"
        /\ Len(top_errors) = 1
        /\ exit_code = 1
        /\ results = <<>>
        /\ calls = <<>>
        /\ summary = NoSummary

\* the batch ended by a load failure
C5_Witness ==
    /\ pc = "done"
    /\ top_errors = <<"Error in main execution">>
    /\ exit_code = 1

\* the rows counted successful that were submitted and answered with a 2xx status
AcceptedRows ==
    { k \in 1..Len(results) :
         /\ "status_code" \in results[k].keys
         /\ results[k].success
         /\ results[k].status_code >= 200 /\ results[k].status_code < 300
         /\ results[k].row \in CalledRows }

\* total = number of outcomes and successful + failed = total
CountsAddUp ==
    /\ summary.total = Len(results)
    /\ summary.successful + summary.failed = summary.total

\* C6 as stated: the counts add up and successful counts exactly the rows that
\* were submitted and accepted.
C6_SuccessMeansAccepted ==
    (pc = "done" /\ exit_code = 0) =>
        /\ CountsAddUp
        /\ summary.successful = Cardinality(AcceptedRows)

\* C6 amended: the counts add up; with a non-empty api_url successful counts
\* exactly the rows that were submitted and accepted; with an empty api_url
\* (dry run) it counts the rows that passed validation, none of them submitted.
C6_SuccessCounts ==
    (pc = "done" /\ exit_code = 0) =>
        /\ CountsAddUp
        /\ Truthy(api_url) => summary.successful = Cardinality(AcceptedRows)
        /\ ~Truthy(api_url) =>
              /\ summary.successful = Cardinality(PassedRows)
              /\ calls = <<>>

\* one accepted and one rejected submission
C6_Witness ==
    /\ pc = "done"
    /\ Len(calls) = 2
    /\ summary.successful = 1
    /\ summary.failed = 1

----------------------------------------------------------------------------
(* Properties of the validator (RowSpec) *)

\* the required fields in the order the specification enumerates them: PO number,
\* contact email, pickup address, delivery address, origin location code,
\* destination location code, commodity code, cargo-ready date, goods-required date
RequiredOrder ==
    << "poNumber", "factoryEmail", "pickupAddress", "deliveryAddress", "pol", "pod",
       "commodityCode", "cargoReadyDateISO", "goodsRequiredDateISO" >>
RankOf(f) == CHOOSE i \in 1..Len(RequiredOrder) : RequiredOrder[i] = f

\* the required fields of the record that are empty
EmptyRequired ==
    { f \in { RequiredOrder[i] : i \in 1..Len(RequiredOrder) } : ~Truthy(booking_data[f]) }

AllRequiredPresent == EmptyRequired = {}

C9_FormatChecksInOrder ==
    pc = "row_validated" =>
        IF EmptyRequired # {}
        THEN validation.result = "fail" /\ validation.reason[1] = "Missing required fields: "
        ELSE IF ~( /\ booking_data.factoryEmail.kind = "str"
                   /\ Contains(booking_data.factoryEmail.s, <<"@">>) )
        THEN validation = [result |-> "fail",
                           reason |-> <<"Invalid email format for factoryEmail">>]
        ELSE IF booking_data.containerDetails.containers = <<>>
        THEN validation = [result |-> "fail", reason |-> <<"Missing container details">>]
        ELSE IF ~Truthy(booking_data.containerDetails.containers[1].containerType)
        THEN validation = [result |-> "fail", reason |-> <<"Missing container type">>]
        ELSE validation = [result |-> "pass", reason |-> <<>>]

\* C10: a record whose origin or destination location code is the "Unknown"
\* sentinel fails validation and is never submitted.
C10_UnknownNeverSubmitted ==
    /\ pc \in {"submit", "await"} =>
          (booking_data.pol # Unknown /\ booking_data.pod # Unknown)
    /\ \A c \in 1..Len(calls) :
          calls[c].json.pol # Unknown /\ calls[c].json.pod # Unknown

----------------------------------------------------------------------------
(* Dates that no pattern parses (Spec) *)

\* the cell the current row holds for a slot of the order
CellOfSlot(sl) == row[CHOOSE i \in 1..Len(columns) : columns[i].slot = sl].value

\* a non-empty string that none of the three date patterns parses
RawDate(v) ==
    /\ v.kind = "str"
    /\ v.s # <<>>
    /\ \A k \in 1..Len(date_formats) : Strptime(v.s, date_formats[k]) = <<>>

\* the row of the last outcome is still the current row
LastRowDone == pc \in {"loop", "done"} /\ Len(results) > 0 /\ row # <<>>

\* everything the validator asks of a record, its two dates left aside
ValidButDates(bd) ==
    /\ \A f \in {"poNumber", "pickupAddress", "deliveryAddress", "pol", "pod",
                 "commodityCode"} : Truthy(bd[f])
    /\ bd.factoryEmail.kind = "str"
    /\ Contains(bd.factoryEmail.s, <<"@">>)
    /\ bd.containerDetails.containers # <<>>
    /\ Truthy(bd.containerDetails.containers[1].containerType)

\* the row of the last outcome has an unparseable cargo-ready date, kept as it
\* is in the record, and is valid otherwise
RawDateRowDone ==
    /\ LastRowDone
    /\ RawDate(CellOfSlot("ready"))
    /\ ValidButDates(booking_data)
    /\ Truthy(booking_data.goodsRequiredDateISO)

\* the record keeps the raw string and validate_booking_data returned (True, "")
RawDateKeptAndPassed ==
    /\ booking_data.cargoReadyDateISO = CellOfSlot("ready")
    /\ results[Len(results)].row \in PassedRows

\* requests.post was called for the last row, with the raw string in the body
RawDatePosted ==
    \E c \in 1..Len(calls) :
        /\ calls[c].row = results[Len(results)].row
        /\ calls[c].json.cargoReadyDateISO = CellOfSlot("ready")

\* C11 as stated: a row whose date cell is a non-empty string that no pattern
\* parses keeps the raw string as its date, passes validation when it is valid
\* otherwise, and a submission is attempted for it.
C11_RawDateSubmitted ==
    RawDateRowDone => (RawDateKeptAndPassed /\ RawDatePosted)

\* C11 amended: such a row keeps the raw string and passes validation; with a
\* non-empty api_url a submission is attempted for it, carrying the raw string,
\* and with an empty api_url (dry run) it is reported as validated and no
\* submission is attempted.
C11_RawDatePasses ==
    RawDateRowDone =>
        /\ RawDateKeptAndPassed
        /\ Truthy(api_url) =>
              /\ RawDatePosted
              /\ "status_code" \in results[Len(results)].keys
        /\ ~Truthy(api_url) =>
              /\ calls = <<>>
              /\ results[Len(results)].success
              /\ "status" \in results[Len(results)].keys

\* a row with the date "x" was posted and answered
C11_Witness ==
    /\ RawDateRowDone
    /\ CellOfSlot("ready") = Str(<<"x">>)
    /\ RawDatePosted
    /\ results[Len(results)].status_code = 200

----------------------------------------------------------------------------
(* Properties of process_booking (SubmitSpec) *)

\* process_booking has returned: the outcome of the call is the last one
CallReturned == pc = "loop" /\ Len(results) = 1 /\ post_outcome # NoCall
LastOutcome == results[Len(results)]
Is2xx(net) == net.kind = "response" /\ net.status >= 200 /\ net.status < 300

\* C12: for every response whose status is in [200,300), process_booking
\* returns success with that status code, whatever the body of the response.
C12_Every2xxIsSuccess ==
    (CallReturned /\ Is2xx(post_outcome)) =>
        /\ LastOutcome.success
        /\ LastOutcome.status_code = post_outcome.status

\* C13: process_booking always returns an outcome to main, and every failure
\* is classified: a response with a status outside [200,300) fails with that
\* status; a timeout fails with 408; a connection failure fails with 500 and
\* its own message; any other exception fails with 500 and a message built from
\* the text of the exception.
C13_FailuresClassified ==
    CallReturned =>
        /\ {"success", "status_code", "error"} \subseteq LastOutcome.keys
        /\ LastOutcome.po_number = booking_data.poNumber
        /\ (post_outcome.kind = "response" /\ ~Is2xx(post_outcome)) =>
              /\ ~LastOutcome.success
              /\ LastOutcome.status_code = post_outcome.status
        /\ post_outcome.kind = "timeout" =>
              /\ ~LastOutcome.success
              /\ LastOutcome.status_code = 408
              /\ LastOutcome.error.msg = <<"API request timed out after 30 seconds">>
        /\ post_outcome.kind = "connection" =>
              /\ ~LastOutcome.success
              /\ LastOutcome.status_code = 500
              /\ LastOutcome.error.msg[1] = "Connection error: "
        /\ post_outcome.kind = "other" =>
              /\ ~LastOutcome.success
              /\ LastOutcome.status_code = 500
              /\ LastOutcome.error.t = "message"
              /\ LastOutcome.error.msg = <<"Error processing booking: ", "Exception">>
        /\ (~LastOutcome.success /\ Is2xx(post_outcome)) =>
              /\ LastOutcome.status_code = 500
              /\ LastOutcome.error.msg[1] = "Error processing booking: "

\* a call that timed out
C13_Witness ==
    /\ CallReturned
    /\ post_outcome.kind = "timeout"
    /\ LastOutcome.status_code = 408
    /\ ~LastOutcome.success

\* C14: the Authorization header of the request is "Bearer " followed by the
\* complete credential given to process_booking.
C14_BearerCompleteCredential ==
    \A c \in 1..Len(calls) :
        Truthy(auth_token) =>
            calls[c].headers.Authorization = <<"B","e","a","r","e","r"," ">> \o auth_token.s

\* the top-level fields of the wire shape
WireFields ==
    { "pol", "pod", "pickup_address", "delivery_address", "cargo_ready_date",
      "goods_required_date", "containers", "commodity", "factory_contact_email",
      "incoterms", "message", "user_id", "company_code", "po_number", "stage" }
\* the fields of its container object
WireContainerFields ==
    { "containers", "total_booking_price", "price_matched", "price_matched_at" }

\* C15: the body of the request has the wire shape: the fifteen top-level
\* fields, `containers` holding the list of {containerType, quantity} and the
\* placeholders total_booking_price = "", price_matched = false and
\* price_matched_at, and user_id = "".
C15_WireShape ==
    \A c \in 1..Len(calls) :
        /\ DOMAIN calls[c].json = WireFields
        /\ DOMAIN calls[c].json.containers = WireContainerFields
        /\ calls[c].json.containers.total_booking_price = EmptyStr
        /\ calls[c].json.containers.price_matched = FALSE
        /\ calls[c].json.user_id = EmptyStr
        /\ \A i \in 1..Len(calls[c].json.containers.containers) :
              DOMAIN calls[c].json.containers.containers[i] = {"containerType", "quantity"}

----------------------------------------------------------------------------
(* Properties of create_booking_data_from_row (RowSpec) *)

\* the record of the current row has been built
Built == pc \in {"row_built", "row_validated"}

\* the empty markers: the missing-value sentinel, None, the blank string
EmptyMarker(v) == IsNa(v) \/ v = EmptyStr

HasColumn(label) == \E i \in 1..Len(row) : row[i].label = label

\* the aliases that are columns of the row and whose cell is not an empty marker
Qualifying(aliases) ==
    { k \in 1..Len(aliases) : HasColumn(aliases[k]) /\ ~EmptyMarker(Cell(row, aliases[k])) }

\* the cell of the first qualifying alias, `default` when there is none
Resolved(aliases, default) ==
    IF Qualifying(aliases) = {} THEN default
    ELSE Cell(row, aliases[CHOOSE k \in Qualifying(aliases) :
                              \A j \in Qualifying(aliases) : k <= j])

\* C16: a field resolves to the cell of the first alias, in list order, that is
\* a column of the row and whose cell is not an empty marker (blank string,
\* None, missing value), and to the default when no alias qualifies; an alias
\* whose cell is a blank string is skipped in favour of a later alias.
C16_ResolveSkipsEmptyMarkers ==
    Built =>
        /\ booking_data.poNumber =
              Resolved(<<"PO Number", "Po Number", "po_number">>, EmptyStr)
        /\ booking_data.factoryEmail =
              Resolved(<<"Contact Email", "Origin Email", "contact_email">>, EmptyStr)
        /\ booking_data.commodityCode =
              Resolved(<<"Commodity HS Code", "HS Code", "hs_code">>, EmptyStr)

\* C17: create_booking_data_from_row returns a record for every row, whatever
\* its cells hold; it never ends in an exception.
C17_BuildNeverRaises ==
    /\ pc # "row_raised"
    /\ raised = <<>>

\* the three date patterns, named
PatternYMD == [sep |-> "-", y |-> 1, m |-> 2, d |-> 3]
PatternDMY == [sep |-> "/", y |-> 3, m |-> 2, d |-> 1]
PatternMDY == [sep |-> "/", y |-> 3, m |-> 1, d |-> 2]

\* the date `out` is what the claim says of the cell v
DateAsClaimed(v, out) ==
    /\ v.kind = "datetime" => out = Str(v.s)
    /\ (v.kind = "str" /\ v.s # <<>>) =>
          LET ymd == Strptime(v.s, PatternYMD)
              dmy == Strptime(v.s, PatternDMY)
              mdy == Strptime(v.s, PatternMDY)
          IN  /\ ymd # <<>> => out = Str(IsoFormat(ymd))
              /\ (ymd = <<>> /\ dmy # <<>>) => out = Str(IsoFormat(dmy))
              /\ (ymd = <<>> /\ dmy = <<>> /\ mdy # <<>>) => out = Str(IsoFormat(mdy))
              /\ (ymd = <<>> /\ dmy = <<>> /\ mdy = <<>>) => out = v

Midnight == <<"T","0","0",":","0","0",":","0","0">>

\* C18: a date string is parsed with YYYY-MM-DD, then DD/MM/YYYY, then
\* MM/DD/YYYY, and the record holds the ISO form of the first pattern that
\* parses: "04/05/2025" is day 4 of month 5 and MM/DD/YYYY is used only when
\* DD/MM/YYYY fails; a datetime gives its ISO form; a string that no pattern
\* parses is kept unchanged.
C18_DatePatternsInOrder ==
    Built =>
        /\ DateAsClaimed(CellOfSlot("ready"), booking_data.cargoReadyDateISO)
        /\ DateAsClaimed(CellOfSlot("required"), booking_data.goodsRequiredDateISO)
        /\ CellOfSlot("ready") = Str(<<"0","4","/","0","5","/","2","0","2","5">>) =>
              booking_data.cargoReadyDateISO =
                  Str(<<"2","0","2","5","-","0","5","-","0","4">> \o Midnight)
        /\ CellOfSlot("ready") = Str(<<"2","0","2","5","-","0","4","-","1","5">>) =>
              booking_data.cargoReadyDateISO =
                  Str(<<"2","0","2","5","-","0","4","-","1","5">> \o Midnight)
        /\ CellOfSlot("required") = Str(<<"1","2","/","3","1","/","2","0","2","5">>) =>
              booking_data.goodsRequiredDateISO =
                  Str(<<"2","0","2","5","-","1","2","-","3","1">> \o Midnight)

\* a day-first date and a date that only month-first parses, in one row
C18_Witness ==
    /\ Built
    /\ CellOfSlot("ready") = Str(<<"0","4","/","0","5","/","2","0","2","5">>)
    /\ CellOfSlot("required") = Str(<<"1","2","/","3","1","/","2","0","2","5">>)
    /\ booking_data.cargoReadyDateISO.s[6] = "0" /\ booking_data.cargoReadyDateISO.s[7] = "5"
    /\ booking_data.goodsRequiredDateISO.s[6] = "1" /\ booking_data.goodsRequiredDateISO.s[7] = "2"

\* the sheet has a column for the slot
HasSlot(sl) == \E i \in 1..Len(columns) : columns[i].slot = sl

\* the address the record is built from: the cell, "" when the cell is missing
AddressOf(sl) == IF IsNa(CellOfSlot(sl)) THEN EmptyStr ELSE CellOfSlot(sl)

\* the address split on commas, each segment trimmed
Segments(x) == [i \in 1..Len(Split(x, ",")) |-> Strip(Split(x, ",")[i])]

\* the recognized countries whose name is, case aside, inside the segment
NamedIn(seg) ==
    { k \in 1..Len(country_candidates) :
         Contains(LowerStr(seg), LowerStr(country_candidates[k])) }

\* the country the claim gives an address
CountryAsClaimed(address) ==
    IF address = EmptyStr THEN Unknown
    ELSE LET segs == Segments(address.s)
             n == Len(segs)
             hits == { i \in 1..n : i > n - 3 /\ NamedIn(segs[i]) # {} }
         IN  IF hits = {} THEN Str(segs[n])
             ELSE LET last == CHOOSE i \in hits : \A j \in hits : j <= i
                      first == CHOOSE k \in NamedIn(segs[last]) :
                                  \A j \in NamedIn(segs[last]) : k <= j
                  IN  Str(country_candidates[first])

\* no port code column overrides the derived location code
NoPortCode(sl) == ~HasSlot(sl) \/ ~Truthy(CellOfSlot(sl)) \/ IsNa(CellOfSlot(sl))

\* C19: the location code derived from an address is "Unknown" for an empty
\* address; otherwise the address is split on commas and trimmed, at most the
\* last three segments are examined, the last one first, and the result is
\* the first recognized country whose name is a case-insensitive substring of
\* the segment examined, or the last trimmed segment when none matches.
C19_CountryFromLastSegments ==
    Built =>
        /\ NoPortCode("pol") => booking_data.pol = CountryAsClaimed(AddressOf("pickup"))
        /\ NoPortCode("pod") => booking_data.pod = CountryAsClaimed(AddressOf("delivery"))

\* two countries in an address: the one of the last segment wins, in the
\* spelling of the list
C19_Witness ==
    /\ Built
    /\ CellOfSlot("delivery") = Str(<<"U","K",","," ","j","a","p","a","n">>)
    /\ booking_data.pod = Str(<<"J","a","p","a","n">>)

\* the three (type, count) pairs as resolved from the row
ResolvedPairs ==
    LET a == ExtractArgs(row)
    IN  << [containerType |-> a.container_type, quantity |-> a.container_count],
           [containerType |-> a.container_type_2, quantity |-> a.container_count_2],
           [containerType |-> a.container_type_3, quantity |-> a.container_count_3] >>

\* the pairs whose type is non-empty and whose count is non-zero
KeptPairs(pairs) ==
    { p \in 1..3 :
         /\ ~EmptyMarker(pairs[p].containerType)
         /\ pairs[p].quantity.kind = "int"
         /\ pairs[p].quantity.n # 0 }

\* C20: the container list of the record holds, in the order primary,
\* secondary, tertiary, exactly the pairs whose type resolves non-empty and
\* whose count resolves non-zero.
C20_ContainersInPairOrder ==
    Built =>
        LET list == booking_data.containerDetails.containers
            pairs == ResolvedPairs
            kept == KeptPairs(pairs)
        IN  /\ Len(list) = Cardinality(kept)
            /\ \A i \in 1..Len(list) :
                  \E p \in kept :
                     /\ Cardinality({q \in kept : q < p}) = i - 1
                     /\ list[i] = pairs[p]

\* the secondary pair left out for its zero count, the tertiary one kept
C20_Witness ==
    /\ Built
    /\ columns = TemplateColumns
    /\ CellOfSlot("type2") = Str(<<"4","0","H","C">>)
    /\ CellOfSlot("count2") = IntV(0)
    /\ booking_data.containerDetails.containers =
          << [containerType |-> Str(<<"2","0","G","P">>), quantity |-> IntV(2)],
             [containerType |-> Str(<<"4","5","H","C">>), quantity |-> IntV(3)] >>

----------------------------------------------------------------------------
(* Container line items (RowSpec) *)

\* the sheet has the column of the slot and its cell is not an empty marker
Filled(sl) == HasSlot(sl) /\ ~EmptyMarker(CellOfSlot(sl))

\* the type and count slots of the three pairs
PairSlots ==
    << [type |-> "type1", count |-> "count1"],
       [type |-> "type2", count |-> "count2"],
       [type |-> "type3", count |-> "count3"] >>

\* a (type, count) pair is present in the row: both cells are filled
PairPresent == \E p \in 1..3 : Filled(PairSlots[p].type) /\ Filled(PairSlots[p].count)

\* C21: a record that passes validation has between 1 and 3 container line
\* items, each with a non-empty type label and a positive integer quantity.
C21_ContainersWellFormed ==
    (pc = "row_validated" /\ validation.result = "pass") =>
        LET list == booking_data.containerDetails.containers
        IN  /\ Len(list) \in 1..3
            /\ \A i \in 1..Len(list) :
                  /\ ~EmptyMarker(list[i].containerType)
                  /\ list[i].quantity.kind = "int"
                  /\ list[i].quantity.n > 0

\* C22: the container list of a built record is non-empty only if a (type,
\* count) pair was present in the row, both cells filled; a row with no such
\* pair is built with an empty list and fails validation, it is never a
\* construction failure.
C22_EmptyListIsValidationFailure ==
    /\ (Built /\ booking_data.containerDetails.containers # <<>>) => PairPresent
    /\ ~PairPresent =>
          /\ pc # "row_raised"
          /\ Built => booking_data.containerDetails.containers = <<>>
          /\ pc = "row_validated" => validation.result = "fail"

----------------------------------------------------------------------------
(* Dedicated columns (RowSpec) *)

\* the value a field has after build according to the claim: the cell of its
\* dedicated column when that is filled, the derived value otherwise
OverrideAsClaimed(sl, derived) == IF Filled(sl) THEN CellOfSlot(sl) ELSE derived

\* C23: after build, the origin and destination location codes, incoterms and
\* the service stage each equal the cell of their dedicated column (port
\* code, incoterms, service type) when that column is present and non-empty,
\* and otherwise the derived country, "FOB" and "quote_requested".
C23_DedicatedColumnsOverride ==
    Built =>
        /\ booking_data.pol
              = OverrideAsClaimed("pol", CountryAsClaimed(AddressOf("pickup")))
        /\ booking_data.pod
              = OverrideAsClaimed("pod", CountryAsClaimed(AddressOf("delivery")))
        /\ booking_data.incoterms = OverrideAsClaimed("incoterms", Str(<<"F","O","B">>))
        /\ booking_data.service
              = OverrideAsClaimed("service",
                    Str(<<"q","u","o","t","e","_","r","e","q","u","e","s","t","e","d">>))

----------------------------------------------------------------------------
(* Properties of process_excel_file (SheetSpec) *)

\* the cell is a string in which the marker occurs, whatever the case
Marked(cell, marker) == cell.kind = "str" /\ Contains(LowerStr(cell.s), marker)

MarkerPo == <<"p","o"," ","n","u","m","b","e","r">>
MarkerContact == <<"p","r","i","m","a","r","y"," ","c","o","n","t","a","c","t">>

\* rule 1: the existing labels contain 'PO Number' or 'Po Number' exactly
Rule1 ==
    \E j \in 1..Len(sheet.columns) :
        \/ sheet.columns[j] = Str(<<"P","O"," ","N","u","m","b","e","r">>)
        \/ sheet.columns[j] = Str(<<"P","o"," ","N","u","m","b","e","r">>)

\* rule 2: a cell of the first data row contains 'po number'
Rule2 ==
    /\ ~Rule1
    /\ Len(sheet.rows) > 0
    /\ \E j \in 1..Len(sheet.rows[1]) : Marked(sheet.rows[1][j], MarkerPo)

\* the rows among the first 5 with a cell containing a marker
MarkedRows ==
    { i \in 1..Len(sheet.rows) :
        /\ i <= 5
        /\ \E j \in 1..Len(sheet.rows[i]) :
              Marked(sheet.rows[i][j], MarkerPo) \/ Marked(sheet.rows[i][j], MarkerContact) }

\* rule 3: neither of the above, and one of the first 5 rows is marked
Rule3 == ~Rule1 /\ ~Rule2 /\ MarkedRows # {}

\* the row that becomes the header, counted from 1; 0 when none does
HeaderRow ==
    IF Rule2 THEN 1
    ELSE IF Rule3 THEN CHOOSE i \in MarkedRows : \A k \in MarkedRows : i <= k
    ELSE 0

\* the rows without row h
WithoutRow(rows, h) ==
    IF h = 0 THEN rows
    ELSE [j \in 1..(Len(rows) - 1) |-> IF j < h THEN rows[j] ELSE rows[j + 1]]

\* the rows that are not empty in every column
NonEmptyRows(rows) ==
    SelectSeq(rows, LAMBDA r : \E j \in 1..Len(r) : r[j].kind \notin {"nan", "none"})

\* the labels with the string ones trimmed
Trimmed(labels) ==
    [j \in 1..Len(labels) |->
        IF labels[j].kind = "str" THEN Str(Strip(labels[j].s)) ELSE labels[j]]

\* process_excel_file was called and has returned or raised
SheetDone == pc \in {"loop", "done"}

\* C24: the header rules apply in strict priority: (1) existing labels with
\* 'PO Number' or 'Po Number' are kept and no row is removed; (2) else a
\* first row with 'po number' in a cell becomes the header and leaves the
\* data; (3) else the first of the first 5 rows with 'po number' or 'primary
\* contact' in a cell becomes the header and leaves the data; then string
\* labels are trimmed and rows empty in every column are dropped.
C24_HeaderRulesInPriority ==
    (SheetDone /\ (Rule1 \/ Rule2 \/ Rule3)) =>
        LET claimed ==
                [ columns |-> Trimmed(IF HeaderRow = 0 THEN sheet.columns
                                      ELSE sheet.rows[HeaderRow]),
                  rows |-> NonEmptyRows(WithoutRow(sheet.rows, HeaderRow)) ]
        IN  /\ LocateAndClean(sheet) = [raised |-> <<>>, df |-> claimed]
            /\ pc = "loop" => df = claimed

\* a header row found by scanning below the first row, padded labels to
\* trim, rows left to process
C24_Witness ==
    /\ pc = "loop"
    /\ Rule3
    /\ HeaderRow > 1
    /\ df.columns # sheet.rows[HeaderRow]
    /\ Len(df.rows) > 0
    /\ Len(df.rows) < Len(sheet.rows) - 1

\* no label and no scanned row contains a marker
NoMarker ==
    /\ ~Rule1 /\ ~Rule2 /\ MarkedRows = {}
    /\ \A j \in 1..Len(sheet.columns) :
          ~Marked(sheet.columns[j], MarkerPo) /\ ~Marked(sheet.columns[j], MarkerContact)

\* C25: when neither the existing labels nor any scanned row contains a
\* marker, the existing labels are kept and the data rows returned: nothing
\* is raised and the batch is not aborted, also for a sheet with no data row.
C25_NoHeaderIsSoftFailure ==
    (SheetDone /\ NoMarker) =>
        /\ pc = "loop"
        /\ exit_code # 1
        /\ top_errors = <<>>
        /\ df.columns = Trimmed(sheet.columns)
        /\ df.rows = NonEmptyRows(sheet.rows)

\* C26: when the header row is found by scanning at an index i > 0, every
\* row before it is excluded from the data together with it: only the rows
\* after the header are processed as orders.
C26_RowsBeforeHeaderExcluded ==
    (pc = "loop" /\ Rule3 /\ HeaderRow > 1) =>
        df.rows = NonEmptyRows(SubSeq(sheet.rows, HeaderRow + 1, Len(sheet.rows)))

----------------------------------------------------------------------------
(* The request body and the capped texts (SubmitSpec) *)

\* C27: the record is not mutated once submission has begun: the body of the
\* network call has in every field, customer code and contact e-mail
\* included, the value the serialization of the validated record has, and
\* the masking for the log is applied to a separate copy only.
C27_BodyIsTheValidatedRecord ==
    \A c \in 1..Len(calls) :
        /\ calls[c].json = to_dict(booking_data)
        /\ calls[c].json.customerCode = Str(<<"A","U","T","O">>)
        /\ calls[c].json.factoryEmail = booking_data.factoryEmail
        /\ calls[c].logged.customerCode = Str(<<"A","U","T",".",".",".">>)
        /\ calls[c].logged # calls[c].json

\* the call has returned for a record whose e-mail is longer in the body
\* than in the log
C27_Witness ==
    /\ CallReturned
    /\ Len(calls) = 1
    /\ calls[1].logged.factoryEmail = Str(<<"s","a","l",".",".",".","@","x",".","y">>)
    /\ calls[1].json.factoryEmail = Str(<<"s","a","l","e","s","@","x",".","y">>)

\* the call returned for a response whose body is not JSON
Unparsed ==
    CallReturned /\ post_outcome.kind = "response" /\ post_outcome.body.parse = "invalid"

\* the cap of the status class, and the length of the raw text carried
TextCap == IF Is2xx(post_outcome) THEN 500 ELSE 200
CarriedLen == IF Is2xx(post_outcome) THEN LastOutcome.data.len ELSE LastOutcome.error.len

\* the outcome carries the raw text where its status class puts it
CarriesRawText ==
    IF Is2xx(post_outcome) THEN LastOutcome.data.t = "raw_text"
    ELSE LastOutcome.error.t = "message" /\ LastOutcome.error.msg = <<>>

\* C28 as stated: when the body cannot be parsed, the raw text carried has at
\* most 500 characters for a status in [200,300) and at most 200 for any
\* other status, and a body no longer than the cap is carried unchanged.
C28_RawTextWithinCap ==
    Unparsed =>
        /\ CarriesRawText
        /\ CarriedLen <= TextCap
        /\ post_outcome.body.len <= TextCap => CarriedLen = post_outcome.body.len

\* C28 as it holds: when the body cannot be parsed, a body no longer than the
\* cap (500 for a status in [200,300), 200 otherwise) is carried unchanged,
\* and a longer one is carried as its first cap characters followed by
\* "...", cap + 3 characters in all.
C28_RawTextCappedWithMarker ==
    Unparsed =>
        /\ CarriesRawText
        /\ post_outcome.body.len <= TextCap => CarriedLen = post_outcome.body.len
        /\ post_outcome.body.len > TextCap => CarriedLen = TextCap + 3

\* a 2xx response with a body of 501 characters that is not JSON
C28_Witness ==
    /\ Unparsed
    /\ Is2xx(post_outcome)
    /\ post_outcome.body.len = 501
    /\ LastOutcome.data.len = 503

----------------------------------------------------------------------------
(* Countries and empty addresses (RowSpec) *)

\* the last comma-segment of the address, trimmed
LastSegment(address) == Segments(address.s)[Len(Segments(address.s))]

\* the address of the slot ends in exactly this segment, and no port code
\* column overrides the location code derived from it
EndsIn(sl, code, name) ==
    /\ HasSlot(sl)
    /\ AddressOf(sl).kind = "str"
    /\ AddressOf(sl) # EmptyStr
    /\ LastSegment(AddressOf(sl)) = name
    /\ NoPortCode(code)

\* C29: for every name C of the list of recognized countries, the country
\* extracted from an address whose last comma-segment is exactly C is C, and
\* no other entry of the list.
C29_ListedCountryIsReturned ==
    Built =>
        \A k \in 1..Len(country_candidates) :
            /\ EndsIn("pickup", "pol", country_candidates[k])
                  => booking_data.pol = Str(country_candidates[k])
            /\ EndsIn("delivery", "pod", country_candidates[k])
                  => booking_data.pod = Str(country_candidates[k])

\* the row of the last outcome was built and its address cell resolved empty
EmptyAddressDone(sl) ==
    LastRowDone /\ booking_data # NoBooking /\ AddressOf(sl) = EmptyStr

\* the error message of the last outcome names the field
Named(f) == \E i \in 1..Len(LastOutcome.error.msg) : LastOutcome.error.msg[i] = f

\* the last row was rejected by validate_booking_data and no call was made for it
RejectedUnsent ==
    /\ validation.result = "fail"
    /\ ~LastOutcome.success
    /\ LastOutcome.row \notin CalledRows

\* C30: when the pickup (resp. delivery) address resolved empty, so that
\* country extraction yields "Unknown", the row is never submitted: validate
\* fails with a reason that names the empty address field and, when no port
\* code overrides it, does not name the origin (resp. destination) location
\* code as missing.
C30_EmptyAddressNamedNotLocation ==
    /\ pc \in {"submit", "await"} =>
          booking_data.pickupAddress # EmptyStr /\ booking_data.deliveryAddress # EmptyStr
    /\ EmptyAddressDone("pickup") =>
          /\ RejectedUnsent
          /\ Named("pickupAddress")
          /\ NoPortCode("pol") => booking_data.pol = Unknown /\ ~Named("pol")
    /\ EmptyAddressDone("delivery") =>
          /\ RejectedUnsent
          /\ Named("deliveryAddress")
          /\ NoPortCode("pod") => booking_data.pod = Unknown /\ ~Named("pod")

\* a second row with an empty pickup address and no port code, rejected after
\* a first row was handled
C30_Witness ==
    /\ EmptyAddressDone("pickup")
    /\ NoPortCode("pol")
    /\ booking_data.pol = Unknown
    /\ Len(results) = 2
    /\ LastOutcome.error.msg = <<"Missing required fields: ", "pickupAddress">>

====
